---- MODULE Spec2Model ----
(***************************************************************************)
(* osmo-uecups daemon: the tunnel registry (GTP endpoints, TUN devices,    *)
(* tunnels with reference counts), the UECUPS control channel (JSON        *)
(* commands over SCTP) and the child-process supervisor (SIGCHLD through a *)
(* signalfd).  All handlers run to completion on the main thread, so each  *)
(* one is a single action.                                                 *)
(***************************************************************************)
EXTENDS Integers, Sequences, FiniteSets, TLC

(***************************************************************************)
(* Bounds of the model.                                                    *)
(***************************************************************************)
\* tunnels that may exist at the same time
MaxTunnels == 2
\* size of the operating system's process table (pids 1..MaxPid)
MaxPid == 2
\* control connections that may be open at the same time
MaxClients == 2
MaxThreads == 2
\* the references of an endpoint held outside the tunnels
MaxHolds == 1

(***************************************************************************)
(* Program constants.                                                      *)
(***************************************************************************)
NULL == <<>>
EINVAL == 22
ENODEV == 19
EIO == 5
ENOMEM == 12
SIGKILL == 9
GTP1U_PORT == 2152
GTP1_HEADER_LEN == 8
GTP1_FLAGS == 48
GTP_TPDU == 255

Pids == 1..MaxPid
ClientIds == 1..MaxClients

TEIDs == {1, 2}
TunNames == {"tun0", "tun1"}
NetNsNames == {"ns1"}

(***************************************************************************)
(* JSON values, as far as the handlers look at them.                       *)
(***************************************************************************)
JAbsent == [jt |-> "absent"]
JArray == [jt |-> "array"]
JInt(v) == [jt |-> "integer", v |-> v]
JStr(s) == [jt |-> "string", s |-> s]

\* {"addr_type":..., "ip":<hex>, "Port":...}; iplen is the number of bytes
\* osmo_hexparse() gets out of the hex string, ip stands for those bytes;
\* complete: all three members are present with the right JSON type
JEp(at, len, ip, port) ==
    [jt |-> "object", complete |-> TRUE, addr_type |-> at, iplen |-> len, ip |-> ip, Port |-> port]

\* uint16_t truncation of the JSON integer (the byte order is representation)
htons(x) == x % 65536

Ok(v) == [rc |-> 0, out |-> v]
Err(e) == [rc |-> 0 - e, out |-> NULL]

parse_ep(in) ==
    IF in.jt # "object" THEN Err(EINVAL)
    ELSE IF ~in.complete THEN Err(EINVAL)
    ELSE IF in.addr_type = "IPV4" THEN
        IF in.iplen # 4 THEN Err(EINVAL)
        ELSE Ok([family |-> "AF_INET", addr |-> in.ip, port |-> htons(in.Port)])
    ELSE IF in.addr_type = "IPV6" THEN
        IF in.iplen # 16 THEN Err(EINVAL)
        ELSE Ok([family |-> "AF_INET6", addr |-> in.ip, port |-> htons(in.Port)])
    ELSE Err(EINVAL)

\* libosmocore's sockaddr_equals(): family, address bytes and port
sockaddr_equals(a, b) ==
    /\ a.family = b.family
    /\ a.addr = b.addr
    /\ a.port = b.port

(***************************************************************************)
(* List helpers (llist).                                                   *)
(***************************************************************************)
Min(S) == CHOOSE x \in S : \A y \in S : x <= y

llist_del(s, i) == SubSeq(s, 1, i - 1) \o SubSeq(s, i + 1, Len(s))

\* position in list s of the object at address id
IdxOf(s, id) == Min({i \in 1..Len(s) : s[i].id = id})

(***************************************************************************)
(* GTP endpoints (gtp_endpoint.c).  d is the daemon's registry:            *)
(* [gtp_endpoints, tun_devices, gtp_tunnels, threads, sockets]: the three  *)
(* lists, the worker threads of the endpoints and the UDP sockets that are *)
(* open.  An endpoint is [id, bind_addr, use_count, thread], id being its  *)
(* address in memory, which also names its socket.                         *)
(***************************************************************************)
EpFailures == {"none", "getnameinfo", "socket", "bind", "pthread_create"}

\* The threads are named after the memory of the endpoint they serve and
\* the number of threads started earlier for an endpoint at that address
\* that are still there; pthread_t values are only ever compared.
Tids(mem) == {<<mem, k>> : k \in 0..(MaxThreads - 1)}

\* where a thread's cancellation takes effect: the blocking calls
CancellationPoints == {"recvfrom", "write"}

\* a thread entering gtp_endpoint_thread(ep)
gtp_endpoint_thread(ep) ==
    [ep |-> ep, pc |-> "recvfrom", teid |-> 0, length |-> 0, nread |-> 0,
     outfd |-> NULL, cancelled |-> FALSE]

\* the thread pthread_create() starts next; NULL when no more can be started
NewTid(d, mem) ==
    LET free == {k \in 0..(MaxThreads - 1) : <<mem, k>> \notin DOMAIN d.threads}
    IN IF free = {} THEN NULL ELSE <<mem, Min(free)>>

\* Deferred cancellation: a thread inside a blocking call ends there, any
\* other one runs on up to its next cancellation point.
pthread_cancel(threads, tid) ==
    IF tid \notin DOMAIN threads THEN threads
    ELSE IF threads[tid].pc \in CancellationPoints
    THEN [t \in DOMAIN threads \ {tid} |-> threads[t]]
    ELSE [threads EXCEPT ![tid].cancelled = TRUE]

\* pthread_create(): the table with the new thread in it
pthread_create(threads, tid, ep) ==
    [t \in DOMAIN threads \cup {tid} |->
        IF t = tid THEN gtp_endpoint_thread(ep) ELSE threads[t]]

\* _gtp_endpoint_create() leaving use_count at the 0 of talloc_zero()
_gtp_endpoint_create_unreferenced(d, bind_addr, mem, fail) ==
    IF fail \in {"getnameinfo", "socket"} THEN [d |-> d, ep |-> NULL]
    ELSE IF fail \in {"bind", "pthread_create"} \/ NewTid(d, mem) = NULL
    THEN [d |-> [d EXCEPT !.sockets = (@ \cup {mem}) \ {mem}], ep |-> NULL]
    ELSE [d |-> [d EXCEPT !.sockets = @ \cup {mem},
                          !.threads = pthread_create(@, NewTid(d, mem), mem),
                          !.gtp_endpoints =
                              Append(@, [id |-> mem, bind_addr |-> bind_addr,
                                         use_count |-> 0, thread |-> NewTid(d, mem)])],
          ep |-> mem]

\* _gtp_endpoint_create() leaving through out_free when the thread does not start
_gtp_endpoint_create_unclosed(d, bind_addr, mem, fail) ==
    IF fail \in {"getnameinfo", "socket"} THEN [d |-> d, ep |-> NULL]
    ELSE IF fail = "bind"
    THEN [d |-> [d EXCEPT !.sockets = (@ \cup {mem}) \ {mem}], ep |-> NULL]
    ELSE IF fail = "pthread_create" \/ NewTid(d, mem) = NULL
    THEN [d |-> [d EXCEPT !.sockets = @ \cup {mem}], ep |-> NULL]
    ELSE [d |-> [d EXCEPT !.sockets = @ \cup {mem},
                          !.threads = pthread_create(@, NewTid(d, mem), mem),
                          !.gtp_endpoints =
                              Append(@, [id |-> mem, bind_addr |-> bind_addr,
                                         use_count |-> 1, thread |-> NewTid(d, mem)])],
          ep |-> mem]

\* fail: which of the steps of the creation fails, if any; mem: the memory
\* talloc_zero() returns.  getnameinfo() and socket() fail before there is a
\* socket; after bind() or pthread_create() failed (the latter also when no
\* thread is left) the socket is closed again (out_close).
_gtp_endpoint_create(d, bind_addr, mem, fail) ==
    IF fail \in {"getnameinfo", "socket"} THEN [d |-> d, ep |-> NULL]
    ELSE IF fail \in {"bind", "pthread_create"} \/ NewTid(d, mem) = NULL
    THEN [d |-> [d EXCEPT !.sockets = (@ \cup {mem}) \ {mem}], ep |-> NULL]
    ELSE [d |-> [d EXCEPT !.sockets = @ \cup {mem},
                          !.threads = pthread_create(@, NewTid(d, mem), mem),
                          !.gtp_endpoints =
                              Append(@, [id |-> mem, bind_addr |-> bind_addr,
                                         use_count |-> 1, thread |-> NewTid(d, mem)])],
          ep |-> mem]

\* _gtp_endpoint_find() with the test of sockaddr_equals() inverted
_gtp_endpoint_find_other(d, bind_addr) ==
    LET m == {i \in 1..Len(d.gtp_endpoints) :
                 ~sockaddr_equals(d.gtp_endpoints[i].bind_addr, bind_addr)}
    IN IF m = {} THEN NULL ELSE d.gtp_endpoints[Min(m)].id

_gtp_endpoint_find(d, bind_addr) ==
    LET m == {i \in 1..Len(d.gtp_endpoints) :
                 sockaddr_equals(d.gtp_endpoints[i].bind_addr, bind_addr)}
    IN IF m = {} THEN NULL ELSE d.gtp_endpoints[Min(m)].id

\* gtp_endpoint_find_or_create() not counting the new user of a found endpoint
gtp_endpoint_find_or_create_uncounted(d, bind_addr, mem, fail) ==
    LET ep == _gtp_endpoint_find(d, bind_addr) IN
    IF ep # NULL
    THEN [d |-> d, ep |-> ep]
    ELSE _gtp_endpoint_create(d, bind_addr, mem, fail)

\* gtp_endpoint_find_or_create() without the lookup
gtp_endpoint_find_or_create_unsought(d, bind_addr, mem, fail) ==
    _gtp_endpoint_create(d, bind_addr, mem, fail)

gtp_endpoint_find_or_create(d, bind_addr, mem, fail) ==
    LET ep == _gtp_endpoint_find(d, bind_addr) IN
    IF ep # NULL
    THEN [d |-> [d EXCEPT !.gtp_endpoints[IdxOf(d.gtp_endpoints, ep)].use_count = @ + 1], ep |-> ep]
    ELSE _gtp_endpoint_create(d, bind_addr, mem, fail)

\* pthread_cancel(), llist_del(), close(); the memory is free again
_gtp_endpoint_destroy(d, ep) ==
    LET i == IdxOf(d.gtp_endpoints, ep) IN
    [d EXCEPT !.threads = pthread_cancel(@, d.gtp_endpoints[i].thread),
              !.gtp_endpoints = llist_del(@, i),
              !.sockets = @ \ {ep}]

\* _gtp_endpoint_release() without the destruction of an unused endpoint
_gtp_endpoint_release_kept(d, ep) ==
    LET i == IdxOf(d.gtp_endpoints, ep)
        n == d.gtp_endpoints[i].use_count - 1
    IN [d EXCEPT !.gtp_endpoints[i].use_count = n]

\* use_count is an unsigned long: decrementing 0 wraps around (written -1)
_gtp_endpoint_release(d, ep) ==
    LET i == IdxOf(d.gtp_endpoints, ep)
        n == d.gtp_endpoints[i].use_count - 1
    IN IF n = 0 THEN _gtp_endpoint_destroy(d, ep)
       ELSE [d EXCEPT !.gtp_endpoints[i].use_count = n]

(***************************************************************************)
(* TUN devices (tun_device.c).  A TUN device is                            *)
(* [id, devname, netns_name, use_count]; netns_name is NullStr when the    *)
(* device lives in the daemon's own namespace.                             *)
(***************************************************************************)
NullStr == "NULL"

TunFailures == {"none", "tun_open"}

tun_device_find(d, devname, netns_name) ==
    LET m == {i \in 1..Len(d.tun_devices) :
                 /\ d.tun_devices[i].devname = devname
                 /\ d.tun_devices[i].netns_name = netns_name}
    IN IF m = {} THEN NULL ELSE d.tun_devices[Min(m)].id

tun_device_find_or_create(d, devname, netns_name, mem, fail) ==
    LET tun == tun_device_find(d, devname, netns_name) IN
    IF tun # NULL
    THEN [d |-> [d EXCEPT !.tun_devices[IdxOf(d.tun_devices, tun)].use_count = @ + 1], tun |-> tun]
    ELSE IF fail # "none" THEN [d |-> d, tun |-> NULL]
    ELSE [d |-> [d EXCEPT !.tun_devices =
                    Append(@, [id |-> mem, devname |-> devname,
                               netns_name |-> netns_name, use_count |-> 1])],
          tun |-> mem]

_tun_device_release(d, tun) ==
    LET i == IdxOf(d.tun_devices, tun)
        n == d.tun_devices[i].use_count - 1
    IN IF n = 0 THEN [d EXCEPT !.tun_devices = llist_del(@, i)]
       ELSE [d EXCEPT !.tun_devices[i].use_count = n]

\* the first TUN device living in the named namespace
tun_device_find_netns(d, netns_name) ==
    LET m == {i \in 1..Len(d.tun_devices) : d.tun_devices[i].netns_name = netns_name}
    IN IF m = {} THEN NULL ELSE d.tun_devices[Min(m)].id

(***************************************************************************)
(* Tunnels (gtp_tunnel.c).  A tunnel is [gtp_ep, tun_dev, rx_teid], the    *)
(* first two being the addresses of its endpoint and of its TUN device.    *)
(***************************************************************************)
\* position of the tunnel with this rx_teid on this endpoint, or 0
_gtp_tunnel_find_r(d, rx_teid, ep) ==
    LET m == {i \in 1..Len(d.gtp_tunnels) :
                 /\ d.gtp_tunnels[i].rx_teid = rx_teid
                 /\ d.gtp_tunnels[i].gtp_ep = ep}
    IN IF m = {} THEN 0 ELSE Min(m)

\* unlink tunnel number i, release its endpoint and its TUN device
_gtp_tunnel_destroy(d, i) ==
    LET t == d.gtp_tunnels[i]
        d1 == [d EXCEPT !.gtp_tunnels = llist_del(@, i)]
        d2 == _gtp_endpoint_release(d1, t.gtp_ep)
    IN _tun_device_release(d2, t.tun_dev)

\* the loop of _gtp_endpoint_deref_destroy(): every tunnel of the list whose
\* gtp_ep is ep is destroyed, in list order
RECURSIVE deref_tunnels(_, _)
deref_tunnels(d, ep) ==
    LET m == {i \in 1..Len(d.gtp_tunnels) : d.gtp_tunnels[i].gtp_ep = ep} IN
    IF m = {} THEN d ELSE deref_tunnels(_gtp_tunnel_destroy(d, Min(m)), ep)

\* the endpoints whose memory is allocated
Allocated(d) == {d.gtp_endpoints[j].id : j \in 1..Len(d.gtp_endpoints)}

\* what is left to do after the loop: ss is the copy of ep->bind_addr taken
\* on entry, d1 the registry the loop left, n the number of calls of
\* _gtp_endpoint_destroy(ep) the loop made.  Returns [d, destroys].
deref_destroy_found(d1, ep, ss, n) ==
    IF _gtp_endpoint_find(d1, ss) # NULL /\ _gtp_endpoint_find(d1, ss) = ep
    THEN [d |-> _gtp_endpoint_destroy(d1, ep), destroys |-> n + 1]
    ELSE [d |-> d1, destroys |-> n]

\* _gtp_endpoint_deref_destroy() destroying ep without looking it up again
_gtp_endpoint_deref_destroy_again(d, ep) ==
    IF ep \in Allocated(deref_tunnels(d, ep))
    THEN [d |-> _gtp_endpoint_destroy(deref_tunnels(d, ep), ep), destroys |-> 1]
    ELSE [d |-> deref_tunnels(d, ep), destroys |-> 2]

\* ep is in the list.  Returns [d, destroys]: the registry and the number of
\* calls of _gtp_endpoint_destroy(ep) made, by the loop (through
\* _gtp_endpoint_release) and after it.
_gtp_endpoint_deref_destroy(d, ep) ==
    deref_destroy_found(deref_tunnels(d, ep), ep,
                        d.gtp_endpoints[IdxOf(d.gtp_endpoints, ep)].bind_addr,
                        IF ep \in Allocated(deref_tunnels(d, ep)) THEN 0 ELSE 1)

\* tpars: [local_udp, rx_teid, tun_name, tun_netns_name]
gtp_tunnel_alloc(d, tpars, ep_mem, ep_fail, tun_mem, tun_fail) ==
    LET e == gtp_endpoint_find_or_create(d, tpars.local_udp, ep_mem, ep_fail) IN
    IF e.ep = NULL THEN [d |-> d, t |-> FALSE]
    ELSE
    LET u == tun_device_find_or_create(e.d, tpars.tun_name, tpars.tun_netns_name,
                                       tun_mem, tun_fail) IN
    IF u.tun = NULL THEN [d |-> _gtp_endpoint_release(e.d, e.ep), t |-> FALSE]
    ELSE IF _gtp_tunnel_find_r(u.d, tpars.rx_teid, e.ep) # 0
    THEN [d |-> _tun_device_release(_gtp_endpoint_release(u.d, e.ep), u.tun), t |-> FALSE]
    ELSE [d |-> [u.d EXCEPT !.gtp_tunnels =
                    Append(@, [gtp_ep |-> e.ep, tun_dev |-> u.tun, rx_teid |-> tpars.rx_teid])],
          t |-> TRUE]

\* gtp_tunnel_destroy() reporting success with the tunnel left in the list
gtp_tunnel_destroy_linked(d, bind_addr, rx_teid) ==
    LET ep == _gtp_endpoint_find(d, bind_addr) IN
    IF ep = NULL THEN [rc |-> 0 - 1, d |-> d]
    ELSE LET i == _gtp_tunnel_find_r(d, rx_teid, ep) IN
         IF i = 0 THEN [rc |-> 0 - 1, d |-> d]
         ELSE [rc |-> 0, d |-> d]

\* rc < 0: no such tunnel
gtp_tunnel_destroy(d, bind_addr, rx_teid) ==
    LET ep == _gtp_endpoint_find(d, bind_addr) IN
    IF ep = NULL THEN [rc |-> 0 - 1, d |-> d]
    ELSE LET i == _gtp_tunnel_find_r(d, rx_teid, ep) IN
         IF i = 0 THEN [rc |-> 0 - 1, d |-> d]
         ELSE [rc |-> 0, d |-> _gtp_tunnel_destroy(d, i)]

(***************************************************************************)
(* Control channel (main.c).  A response is [to, pdu]: the client it is    *)
(* sent to and the JSON object {"<name>": {"result": ..., ...}}.           *)
(***************************************************************************)
gen_uecups_result(name, res) == [name |-> name, result |-> res]

gen_uecups_start_res(pid, result) ==
    [name |-> "start_program_res", result |-> result, pid |-> pid]

gen_uecups_term_ind(pid, status) ==
    [name |-> "program_term_ind", pid |-> pid, exit_code |-> status]

cups_client_tx_json(cc, jtx) == <<[to |-> cc, pdu |-> jtx]>>

\* ctun: [jt, local_gtp_ep, rx_teid, tun_dev_name, tun_netns_name,
\*        others_present, others_parse]; the last two stand for remote_gtp_ep,
\* tx_teid, user_addr and user_addr_type: all there with the right JSON
\* type, and accepted by parse_ep() and parse_eua()
parse_create_tun(ctun) ==
    IF ctun.jt # "object" THEN Err(EINVAL)
    ELSE IF \/ ctun.local_gtp_ep.jt = "absent" \/ ctun.rx_teid.jt = "absent"
            \/ ctun.tun_dev_name.jt = "absent" \/ ~ctun.others_present
    THEN Err(EINVAL)
    ELSE IF \/ ctun.local_gtp_ep.jt # "object" \/ ctun.rx_teid.jt # "integer"
            \/ ctun.tun_dev_name.jt # "string"
    THEN Err(EINVAL)
    ELSE LET l == parse_ep(ctun.local_gtp_ep) IN
    IF l.rc < 0 THEN Err(EINVAL)
    ELSE IF ~ctun.others_parse THEN Err(EINVAL)
    ELSE IF ctun.tun_netns_name.jt \notin {"absent", "string"} THEN Err(EINVAL)
    ELSE Ok([local_udp |-> l.out,
             rx_teid |-> ctun.rx_teid.v,
             tun_name |-> ctun.tun_dev_name.s,
             tun_netns_name |-> IF ctun.tun_netns_name.jt = "absent" THEN NullStr
                                ELSE ctun.tun_netns_name.s])

\* cups_client_handle_create_tun() answering a failed gtp_tunnel_alloc() with
\* ERR_INVALID_DATA
cups_client_handle_create_tun_invalid(cc, ctun, d, subprocesses, procs, os) ==
    LET p == parse_create_tun(ctun) IN
    IF p.rc < 0
    THEN [rc |-> p.rc, d |-> d, subprocesses |-> subprocesses, procs |-> procs,
          tx |-> <<>>, sys |-> <<>>]
    ELSE LET a == gtp_tunnel_alloc(d, p.out, os.ep_mem, os.ep_fail, os.tun_mem, os.tun_fail)
         IN [rc |-> 0, d |-> a.d, subprocesses |-> subprocesses, procs |-> procs,
             tx |-> cups_client_tx_json(cc, gen_uecups_result("create_tun_res",
                        IF a.t THEN "OK" ELSE "ERR_INVALID_DATA")),
             sys |-> <<>>]

\* cups_client_handle_destroy_tun() testing rc > 0 where the code tests rc < 0
cups_client_handle_destroy_tun_positive(cc, dtun, d, subprocesses, procs, os) ==
    LET fail(e) == [rc |-> 0 - e, d |-> d, subprocesses |-> subprocesses,
                    procs |-> procs, tx |-> <<>>, sys |-> <<>>] IN
    IF dtun.jt # "object" THEN fail(EINVAL)
    ELSE IF dtun.local_gtp_ep.jt = "absent" \/ dtun.rx_teid.jt = "absent" THEN fail(EINVAL)
    ELSE IF dtun.local_gtp_ep.jt # "object" \/ dtun.rx_teid.jt # "integer" THEN fail(EINVAL)
    ELSE LET l == parse_ep(dtun.local_gtp_ep) IN
    IF l.rc < 0 THEN fail(0 - l.rc)
    ELSE LET r == gtp_tunnel_destroy(d, l.out, dtun.rx_teid.v) IN
         [rc |-> 0, d |-> r.d, subprocesses |-> subprocesses, procs |-> procs,
          tx |-> cups_client_tx_json(cc, gen_uecups_result("destroy_tun_res",
                     IF r.rc > 0 THEN "ERR_NOT_FOUND" ELSE "OK")),
          sys |-> <<>>]

\* A handler returns [rc, d, subprocesses, procs, tx, sys]: its return code,
\* the registry, the subprocess list and the process table as it leaves
\* them, the responses it sends and the system calls it makes.
\* os: the outcome of the operating system's part of the command
cups_client_handle_create_tun(cc, ctun, d, subprocesses, procs, os) ==
    LET p == parse_create_tun(ctun) IN
    IF p.rc < 0
    THEN [rc |-> p.rc, d |-> d, subprocesses |-> subprocesses, procs |-> procs,
          tx |-> <<>>, sys |-> <<>>]
    ELSE LET a == gtp_tunnel_alloc(d, p.out, os.ep_mem, os.ep_fail, os.tun_mem, os.tun_fail)
         IN [rc |-> 0, d |-> a.d, subprocesses |-> subprocesses, procs |-> procs,
             tx |-> cups_client_tx_json(cc, gen_uecups_result("create_tun_res",
                        IF a.t THEN "OK" ELSE "ERR_NOT_FOUND")),
             sys |-> <<>>]

\* dtun: [jt, local_gtp_ep, rx_teid]
cups_client_handle_destroy_tun(cc, dtun, d, subprocesses, procs, os) ==
    LET fail(e) == [rc |-> 0 - e, d |-> d, subprocesses |-> subprocesses,
                    procs |-> procs, tx |-> <<>>, sys |-> <<>>] IN
    IF dtun.jt # "object" THEN fail(EINVAL)
    ELSE IF dtun.local_gtp_ep.jt = "absent" \/ dtun.rx_teid.jt = "absent" THEN fail(EINVAL)
    ELSE IF dtun.local_gtp_ep.jt # "object" \/ dtun.rx_teid.jt # "integer" THEN fail(EINVAL)
    ELSE LET l == parse_ep(dtun.local_gtp_ep) IN
    IF l.rc < 0 THEN fail(0 - l.rc)
    ELSE LET r == gtp_tunnel_destroy(d, l.out, dtun.rx_teid.v) IN
         [rc |-> 0, d |-> r.d, subprocesses |-> subprocesses, procs |-> procs,
          tx |-> cups_client_tx_json(cc, gen_uecups_result("destroy_tun_res",
                     IF r.rc < 0 THEN "ERR_NOT_FOUND" ELSE "OK")),
          sys |-> <<>>]

(***************************************************************************)
(* Subprocesses.  A subprocess record is [pid, cups_client].  procs is the *)
(* operating system's process table: "free" (no such child), "running",    *)
(* "killed" (SIGKILL delivered, not yet dead) or "zombie" (terminated and  *)
(* not waited for; the daemon never waits for its children).               *)
(***************************************************************************)
\* kill(2): a fatal signal to a running child; nothing happens to a zombie
kill(procs, pid, signal) ==
    IF procs[pid].st = "running" THEN [procs EXCEPT ![pid].st = "killed"] ELSE procs

RECURSIVE subprocess_destroy_all(_, _, _, _)
\* subprocess_destroy(p, signal) for every record, from position i on, whose
\* client is one of ccs
subprocess_destroy_all(w, i, ccs, signal) ==
    IF i > Len(w.subprocesses) THEN w
    ELSE IF w.subprocesses[i].cups_client \notin ccs
    THEN subprocess_destroy_all(w, i + 1, ccs, signal)
    ELSE subprocess_destroy_all(
             [w EXCEPT !.procs = kill(@, w.subprocesses[i].pid, signal),
                       !.sys = Append(@, [call |-> "kill", pid |-> w.subprocesses[i].pid,
                                          sig |-> signal]),
                       !.subprocesses = llist_del(@, i)],
             i, ccs, signal)

\* subprocess_by_pid() returning the first record when none has the pid
subprocess_by_pid_first(subprocesses, pid) ==
    LET m == {i \in 1..Len(subprocesses) : subprocesses[i].pid = pid}
    IN IF m # {} THEN Min(m) ELSE IF Len(subprocesses) > 0 THEN 1 ELSE 0

subprocess_by_pid(subprocesses, pid) ==
    LET m == {i \in 1..Len(subprocesses) : subprocesses[i].pid = pid}
    IN IF m = {} THEN 0 ELSE Min(m)

\* cups_client_handle_start_program() going on when tun_device_find_netns()
\* finds no TUN device
cups_client_handle_start_program_anywhere(cc, sprog, d, subprocesses, procs, os) ==
    LET ret(e, pr, sy) == [rc |-> 0 - e, d |-> d, subprocesses |-> subprocesses,
                           procs |-> pr, tx |-> <<>>, sys |-> sy]
        jnetns == sprog.tun_netns_name
        in_ns == jnetns.jt # "absent"
    IN
    IF sprog.jt # "object" THEN ret(EINVAL, procs, <<>>)
    ELSE IF sprog.run_as_user.jt = "absent" \/ sprog.command.jt = "absent"
    THEN ret(EINVAL, procs, <<>>)
    ELSE IF sprog.run_as_user.jt # "string" \/ sprog.command.jt # "string"
    THEN ret(EINVAL, procs, <<>>)
    ELSE IF sprog.environment.jt \notin {"absent", "array"} THEN ret(EINVAL, procs, <<>>)
    ELSE IF jnetns.jt \notin {"absent", "string"} THEN ret(EINVAL, procs, <<>>)
    ELSE IF sprog.environment.jt = "array" /\ ~os.env_alloc_ok THEN ret(ENOMEM, procs, <<>>)
    ELSE IF in_ns /\ ~os.switch_ns_ok
    THEN ret(EIO, procs, <<[call |-> "switch_ns", ok |-> FALSE]>>)
    ELSE
    LET sy == (IF in_ns THEN <<[call |-> "switch_ns", ok |-> TRUE]>> ELSE <<>>)
              \o <<[call |-> "osmo_system_nowait2", rc |-> os.pid]>>
              \o (IF in_ns THEN <<[call |-> "restore_ns"]>> ELSE <<>>)
        pr == IF os.pid > 0 THEN [procs EXCEPT ![os.pid].st = "running"] ELSE procs
    IN
    IF os.pid > 0 THEN
        IF ~os.sproc_alloc_ok THEN ret(ENOMEM, pr, sy)
        ELSE [rc |-> 0, d |-> d,
              subprocesses |-> Append(subprocesses, [pid |-> os.pid, cups_client |-> cc]),
              procs |-> pr,
              tx |-> cups_client_tx_json(cc, gen_uecups_start_res(os.pid, "OK")),
              sys |-> sy]
    ELSE [rc |-> 0, d |-> d, subprocesses |-> subprocesses, procs |-> pr,
          tx |-> cups_client_tx_json(cc, gen_uecups_start_res(0, "ERR_INVALID_DATA")),
          sys |-> sy]

\* sprog: [jt, run_as_user, command, environment, tun_netns_name]
\* os: [switch_ns_ok, pid (what osmo_system_nowait2() returns), env_alloc_ok,
\*      sproc_alloc_ok]
cups_client_handle_start_program(cc, sprog, d, subprocesses, procs, os) ==
    LET ret(e, pr, sy) == [rc |-> 0 - e, d |-> d, subprocesses |-> subprocesses,
                           procs |-> pr, tx |-> <<>>, sys |-> sy]
        jnetns == sprog.tun_netns_name
        in_ns == jnetns.jt # "absent"
    IN
    IF sprog.jt # "object" THEN ret(EINVAL, procs, <<>>)
    ELSE IF sprog.run_as_user.jt = "absent" \/ sprog.command.jt = "absent"
    THEN ret(EINVAL, procs, <<>>)
    ELSE IF sprog.run_as_user.jt # "string" \/ sprog.command.jt # "string"
    THEN ret(EINVAL, procs, <<>>)
    ELSE IF sprog.environment.jt \notin {"absent", "array"} THEN ret(EINVAL, procs, <<>>)
    ELSE IF jnetns.jt \notin {"absent", "string"} THEN ret(EINVAL, procs, <<>>)
    ELSE IF in_ns /\ tun_device_find_netns(d, jnetns.s) = NULL THEN ret(ENODEV, procs, <<>>)
    ELSE IF sprog.environment.jt = "array" /\ ~os.env_alloc_ok THEN ret(ENOMEM, procs, <<>>)
    ELSE IF in_ns /\ ~os.switch_ns_ok
    THEN ret(EIO, procs, <<[call |-> "switch_ns", ok |-> FALSE]>>)
    ELSE
    LET sy == (IF in_ns THEN <<[call |-> "switch_ns", ok |-> TRUE]>> ELSE <<>>)
              \o <<[call |-> "osmo_system_nowait2", rc |-> os.pid]>>
              \o (IF in_ns THEN <<[call |-> "restore_ns"]>> ELSE <<>>)
        pr == IF os.pid > 0 THEN [procs EXCEPT ![os.pid].st = "running"] ELSE procs
    IN
    IF os.pid > 0 THEN
        IF ~os.sproc_alloc_ok THEN ret(ENOMEM, pr, sy)
        ELSE [rc |-> 0, d |-> d,
              subprocesses |-> Append(subprocesses, [pid |-> os.pid, cups_client |-> cc]),
              procs |-> pr,
              tx |-> cups_client_tx_json(cc, gen_uecups_start_res(os.pid, "OK")),
              sys |-> sy]
    ELSE [rc |-> 0, d |-> d, subprocesses |-> subprocesses, procs |-> pr,
          tx |-> cups_client_tx_json(cc, gen_uecups_start_res(0, "ERR_INVALID_DATA")),
          sys |-> sy]

RECURSIVE destroy_all_tunnels(_)
destroy_all_tunnels(d) ==
    IF Len(d.gtp_tunnels) = 0 THEN d ELSE destroy_all_tunnels(_gtp_tunnel_destroy(d, 1))

\* cups_client_handle_reset_all_state() killing the subprocesses of the client
\* that sent the command only
cups_client_handle_reset_all_state_own(cc, body, d, subprocesses, procs, os) ==
    LET d1 == destroy_all_tunnels(d)
        w == subprocess_destroy_all(
                 [subprocesses |-> subprocesses, procs |-> procs,
                  sys |-> [i \in 1..Len(d.gtp_tunnels) |-> [call |-> "_gtp_tunnel_destroy"]]],
                 1, {cc}, SIGKILL)
    IN [rc |-> 0, d |-> d1, subprocesses |-> w.subprocesses, procs |-> w.procs,
        tx |-> cups_client_tx_json(cc, gen_uecups_result("reset_all_state_res", "OK")),
        sys |-> w.sys]

\* sys: one _gtp_tunnel_destroy per tunnel, then one kill per subprocess
cups_client_handle_reset_all_state(cc, body, d, subprocesses, procs, os) ==
    LET d1 == destroy_all_tunnels(d)
        w == subprocess_destroy_all([subprocesses |-> subprocesses, procs |-> procs,
                                     sys |-> [i \in 1..Len(d.gtp_tunnels) |->
                                                 [call |-> "_gtp_tunnel_destroy"]]], 1,
                                    {subprocesses[i].cups_client : i \in 1..Len(subprocesses)},
                                    SIGKILL)
    IN [rc |-> 0, d |-> d1, subprocesses |-> w.subprocesses, procs |-> w.procs,
        tx |-> cups_client_tx_json(cc, gen_uecups_result("reset_all_state_res", "OK")),
        sys |-> w.sys]

\* cups_client_handle_json() without the response to a failed handler
cups_client_handle_json_silent(cc, jroot, d, subprocesses, procs, os) ==
    LET nop(e) == [rc |-> 0 - e, d |-> d, subprocesses |-> subprocesses,
                   procs |-> procs, tx |-> <<>>, sys |-> <<>>] IN
    IF jroot.jt # "object" THEN nop(EINVAL)
    ELSE IF jroot.key = "" THEN nop(EINVAL)
    ELSE IF jroot.key \notin {"create_tun", "destroy_tun", "start_program", "reset_all_state"}
    THEN nop(EINVAL)
    ELSE
    LET r == CASE jroot.key = "create_tun" ->
                      cups_client_handle_create_tun(cc, jroot.body, d, subprocesses, procs, os)
               [] jroot.key = "destroy_tun" ->
                      cups_client_handle_destroy_tun(cc, jroot.body, d, subprocesses, procs, os)
               [] jroot.key = "start_program" ->
                      cups_client_handle_start_program(cc, jroot.body, d, subprocesses, procs, os)
               [] jroot.key = "reset_all_state" ->
                      cups_client_handle_reset_all_state(cc, jroot.body, d, subprocesses, procs, os)
    IN IF r.rc < 0 THEN [r EXCEPT !.rc = 0 - EINVAL] ELSE r

\* jroot: [jt, key, body]: a JSON value; of an object, the key and the value
\* of its first member (key "" in an empty object)
cups_client_handle_json(cc, jroot, d, subprocesses, procs, os) ==
    LET nop(e) == [rc |-> 0 - e, d |-> d, subprocesses |-> subprocesses,
                   procs |-> procs, tx |-> <<>>, sys |-> <<>>] IN
    IF jroot.jt # "object" THEN nop(EINVAL)
    ELSE IF jroot.key = "" THEN nop(EINVAL)
    ELSE IF jroot.key \notin {"create_tun", "destroy_tun", "start_program", "reset_all_state"}
    THEN nop(EINVAL)
    ELSE
    LET r == CASE jroot.key = "create_tun" ->
                      cups_client_handle_create_tun(cc, jroot.body, d, subprocesses, procs, os)
               [] jroot.key = "destroy_tun" ->
                      cups_client_handle_destroy_tun(cc, jroot.body, d, subprocesses, procs, os)
               [] jroot.key = "start_program" ->
                      cups_client_handle_start_program(cc, jroot.body, d, subprocesses, procs, os)
               [] jroot.key = "reset_all_state" ->
                      cups_client_handle_reset_all_state(cc, jroot.body, d, subprocesses, procs, os)
    IN IF r.rc < 0
       THEN [r EXCEPT !.rc = 0 - EINVAL,
                      !.tx = @ \o cups_client_tx_json(cc,
                                      gen_uecups_result(jroot.key \o "_res", "ERR_INVALID_DATA"))]
       ELSE r

(***************************************************************************)
(* State.                                                                  *)
(***************************************************************************)
VARIABLES
    threads,        \* the endpoint workers: thread id -> where it is and its locals
    sockets,        \* the UDP sockets that are open
    rwlock,         \* d->rwlock: [writer, readers]
    mt,             \* where the main thread is inside a command
    gtp_endpoints,  \* d->gtp_endpoints
    tun_devices,    \* d->tun_devices
    gtp_tunnels,    \* d->gtp_tunnels
    cups_clients,   \* d->cups_clients: the connected clients
    subprocesses,   \* d->subprocesses
    procs,          \* the process table: the daemon's children
    sigpending,     \* the SIGCHLD pending on the signalfd, if any: its siginfo
    indicated,      \* history: pid -> the number of program_term_ind sent for it
    tx,             \* the PDUs the last handler sent
    sys,            \* the system calls the last handler made
    last,           \* history: what the last handler was given: the event, the
                    \* client, the command, its case, the tunnels there were
    snap            \* history: the registry before the last create_tun, kept
                    \* over a destroy_tun of the same tunnel that follows it

vars == <<threads, sockets, rwlock, mt, gtp_endpoints, tun_devices, gtp_tunnels, cups_clients, subprocesses,
          procs, sigpending, indicated, tx, sys, last, snap>>

\* the registry
D == [gtp_endpoints |-> gtp_endpoints, tun_devices |-> tun_devices,
      gtp_tunnels |-> gtp_tunnels, threads |-> threads, sockets |-> sockets]

\* the main thread is in the event loop
Idle == [pc |-> "idle"]

NoSnap == [stage |-> "none"]

Init ==
    /\ threads = <<>>
    /\ sockets = {}
    /\ rwlock = [writer |-> FALSE, readers |-> {}]
    /\ mt = Idle
    /\ gtp_endpoints = <<>>
    /\ tun_devices = <<>>
    /\ gtp_tunnels = <<>>
    /\ cups_clients = {}
    /\ subprocesses = <<>>
    /\ procs = [p \in Pids |-> [st |-> "free", status |-> 0]]
    /\ sigpending = <<>>
    /\ indicated = [p \in Pids |-> 0]
    /\ tx = <<>>
    /\ sys = <<>>
    /\ last = [ev |-> "init"]
    /\ snap = NoSnap

(***************************************************************************)
(* What a command is about, told from the message itself and from the      *)
(* registry it meets (history only; the handlers do not read it).          *)
(***************************************************************************)
\* the socket address a well-formed endpoint object {addr_type, ip, Port} names
AddrOf(jep) ==
    [family |-> IF jep.addr_type = "IPV4" THEN "AF_INET" ELSE "AF_INET6",
     addr |-> jep.ip, port |-> jep.Port]

\* a tunnel with this rx_teid exists on an endpoint bound to this address
KeyInUse(d, addr, rx_teid) ==
    \E i \in 1..Len(d.gtp_tunnels) : \E j \in 1..Len(d.gtp_endpoints) :
        /\ d.gtp_tunnels[i].rx_teid = rx_teid
        /\ d.gtp_tunnels[i].gtp_ep = d.gtp_endpoints[j].id
        /\ d.gtp_endpoints[j].bind_addr = addr

AddrBound(d, addr) == \E j \in 1..Len(d.gtp_endpoints) : d.gtp_endpoints[j].bind_addr = addr

TunKnown(d, name, ns) ==
    \E j \in 1..Len(d.tun_devices) :
        d.tun_devices[j].devname = name /\ d.tun_devices[j].netns_name = ns

NetnsOf(j) == IF j.jt = "absent" THEN NullStr ELSE j.s

(***************************************************************************)
(* The messages the clients send.                                          *)
(***************************************************************************)
Garbage == [jt |-> "garbage"]
Cmd(key, body) == [jt |-> "object", key |-> key, body |-> body]
EmptyObject == [jt |-> "object", key |-> "", body |-> JAbsent]

\* IPv4 0.0.0.0 on two ports, IPv4 0.0.0.1, and IPv6 :: (same bytes and port
\* as the first, another family)
LocalEps ==
    {JEp("IPV4", 4, 0, GTP1U_PORT), JEp("IPV4", 4, 0, GTP1U_PORT + 1),
     JEp("IPV6", 16, 0, GTP1U_PORT)}

BadEps ==
    {JEp("IPV4", 16, 0, GTP1U_PORT), JEp("IPV6", 4, 0, GTP1U_PORT),
     JEp("IPV5", 4, 0, GTP1U_PORT),
     [JEp("IPV4", 4, 0, GTP1U_PORT) EXCEPT !.complete = FALSE]}

CreateTun(e, t, n, ns) ==
    [jt |-> "object", local_gtp_ep |-> e, rx_teid |-> JInt(t), tun_dev_name |-> JStr(n),
     tun_netns_name |-> ns, others_present |-> TRUE, others_parse |-> TRUE]

\* the TUN devices asked for: tun0 in the daemon's namespace, tun0 and tun1
\* in ns1
ValidCreateTun ==
    {CreateTun(e, t, n, ns) : e \in LocalEps, t \in TEIDs, n \in TunNames,
                              ns \in {JAbsent} \cup {JStr(x) : x \in NetNsNames}}
    \ {CreateTun(e, t, "tun1", JAbsent) : e \in LocalEps, t \in TEIDs}

MalformedCreateTun ==
    LET c == CreateTun(JEp("IPV4", 4, 0, GTP1U_PORT), 1, "tun0", JAbsent) IN
    {JArray} \cup {[c EXCEPT !.local_gtp_ep = e] : e \in BadEps \cup {JAbsent, JArray}}
    \cup {[c EXCEPT !.rx_teid = JAbsent], [c EXCEPT !.rx_teid = JStr("1")],
          [c EXCEPT !.tun_dev_name = JInt(0)], [c EXCEPT !.tun_netns_name = JInt(1)],
          [c EXCEPT !.others_present = FALSE], [c EXCEPT !.others_parse = FALSE]}

DestroyTun(e, t) == [jt |-> "object", local_gtp_ep |-> e, rx_teid |-> JInt(t)]

ValidDestroyTun == {DestroyTun(e, t) : e \in LocalEps, t \in TEIDs}

MalformedDestroyTun ==
    LET c == DestroyTun(JEp("IPV4", 4, 0, GTP1U_PORT), 1) IN
    {JArray} \cup {[c EXCEPT !.local_gtp_ep = e] : e \in BadEps \cup {JAbsent, JArray}}
    \cup {[c EXCEPT !.rx_teid = JAbsent], [c EXCEPT !.rx_teid = JStr("1")]}

StartProgram(ns, env) ==
    [jt |-> "object", run_as_user |-> JStr("nobody"), command |-> JStr("/bin/true"),
     environment |-> env, tun_netns_name |-> ns]

ValidStartProgram ==
    {StartProgram(ns, env) : ns \in {JAbsent} \cup {JStr(x) : x \in NetNsNames},
                             env \in {JAbsent, JArray}}

MalformedStartProgram ==
    LET c == StartProgram(JAbsent, JAbsent) IN
    {JArray, [c EXCEPT !.run_as_user = JAbsent], [c EXCEPT !.command = JAbsent],
     [c EXCEPT !.command = JInt(1)], [c EXCEPT !.environment = JStr("A=B")],
     [c EXCEPT !.tun_netns_name = JInt(1)]}

\* what the operating system answers when nothing of it is asked
NoOs == [ep_mem |-> NULL, ep_fail |-> "none", tun_mem |-> NULL, tun_fail |-> "none",
         switch_ns_ok |-> TRUE, pid |-> 0, env_alloc_ok |-> TRUE, sproc_alloc_ok |-> TRUE]

\* The memory the allocator hands out for a new object: any address no live
\* object has.  Addresses are only ever compared with each other, so which
\* one it is makes no difference; the one chosen is named after what is
\* stored there and the number of live objects storing the same.
EpAlloc(addr) ==
    <<"ep", addr, Cardinality({i \in 1..Len(gtp_endpoints) : gtp_endpoints[i].bind_addr = addr})>>

TunAlloc(name, ns) ==
    <<"tun", name, ns,
      Cardinality({i \in 1..Len(tun_devices) :
                      tun_devices[i].devname = name /\ tun_devices[i].netns_name = ns})>>

\* what can become of a start_program that gets as far as the system: the
\* allocation of the environment, switch_ns(), the fork or the allocation of
\* the record fails, or the program is started
StartOutcomes == {"env_alloc", "switch_ns", "fork", "sproc_alloc", "started"}

\* the outcomes, among those allowed, of the operating system's part of a
\* command: where the allocator puts a new object, which step of a creation
\* fails, the pid of a new child
OsOutcomes(jroot, allowed) ==
    IF jroot.jt # "object" THEN {NoOs}
    ELSE IF jroot.key = "create_tun" /\ jroot.body \in ValidCreateTun THEN
        LET b == jroot.body
            em == {EpAlloc(AddrOf(b.local_gtp_ep))}
            ef == IF AddrBound(D, AddrOf(b.local_gtp_ep)) THEN {"none"}
                  ELSE EpFailures \cap allowed
            tm == {TunAlloc(b.tun_dev_name.s, NetnsOf(b.tun_netns_name))}
            tf == IF TunKnown(D, b.tun_dev_name.s, NetnsOf(b.tun_netns_name)) THEN {"none"}
                  ELSE TunFailures \cap allowed
        IN {[NoOs EXCEPT !.ep_mem = a, !.ep_fail = f, !.tun_mem = u, !.tun_fail = g] :
               a \in em, f \in ef, u \in tm, g \in tf}
    ELSE IF jroot.key = "start_program" /\ jroot.body \in ValidStartProgram THEN
        LET free == {q \in Pids : procs[q].st = "free"} IN
        (IF jroot.body.environment.jt = "array" /\ "env_alloc" \in allowed
         THEN {[NoOs EXCEPT !.env_alloc_ok = FALSE]} ELSE {})
        \cup (IF jroot.body.tun_netns_name.jt = "string" /\ "switch_ns" \in allowed
              THEN {[NoOs EXCEPT !.switch_ns_ok = FALSE]} ELSE {})
        \cup (IF "fork" \in allowed THEN {[NoOs EXCEPT !.pid = 0 - 1]} ELSE {})
        \cup (IF "sproc_alloc" \in allowed
              THEN {[NoOs EXCEPT !.pid = p, !.sproc_alloc_ok = FALSE] : p \in free} ELSE {})
        \cup (IF "started" \in allowed
              THEN {[NoOs EXCEPT !.pid = p] : p \in free} ELSE {})
    ELSE {NoOs}

\* the case of its command a message is
CaseOf(jroot, os) ==
    IF jroot.jt = "garbage" THEN "malformed_json"
    ELSE IF jroot.jt # "object" THEN "not_an_object"
    ELSE IF jroot.key = "" THEN "empty_object"
    ELSE IF jroot.key = "create_tun" THEN
        IF jroot.body \in MalformedCreateTun THEN "malformed"
        ELSE LET b == jroot.body
                 addr == AddrOf(b.local_gtp_ep) IN
             IF KeyInUse(D, addr, b.rx_teid.v) THEN "duplicate"
             ELSE IF os.ep_fail # "none" \/ os.tun_fail # "none" THEN "os_failure"
             ELSE "fresh"
    ELSE IF jroot.key = "destroy_tun" THEN
        IF jroot.body \in MalformedDestroyTun THEN "malformed"
        ELSE IF KeyInUse(D, AddrOf(jroot.body.local_gtp_ep), jroot.body.rx_teid.v)
        THEN "present" ELSE "missing"
    ELSE IF jroot.key = "start_program" THEN
        IF jroot.body \in MalformedStartProgram THEN "malformed"
        ELSE IF /\ jroot.body.tun_netns_name.jt = "string"
                /\ \A j \in 1..Len(tun_devices) :
                       tun_devices[j].netns_name # jroot.body.tun_netns_name.s
        THEN "unknown_netns"
        ELSE IF \/ jroot.body.environment.jt = "array" /\ ~os.env_alloc_ok
                \/ jroot.body.tun_netns_name.jt = "string" /\ ~os.switch_ns_ok
                \/ os.pid <= 0
                \/ ~os.sproc_alloc_ok
        THEN "os_failure"
        ELSE "startable"
    ELSE IF jroot.key = "reset_all_state" THEN "reset"
    ELSE "unknown_key"

SnapOf(jroot, os, result) ==
    IF jroot.jt = "object" /\ jroot.key = "create_tun" /\ jroot.body \in ValidCreateTun
    THEN [stage |-> "created", ep |-> jroot.body.local_gtp_ep, teid |-> jroot.body.rx_teid.v,
          before |-> D, case |-> CaseOf(jroot, os), cres |-> result, dres |-> ""]
    ELSE IF /\ jroot.jt = "object" /\ jroot.key = "destroy_tun"
            /\ jroot.body \in ValidDestroyTun /\ snap.stage = "created"
            /\ jroot.body.local_gtp_ep = snap.ep /\ jroot.body.rx_teid.v = snap.teid
    THEN [snap EXCEPT !.stage = "destroyed", !.dres = result]
    ELSE NoSnap

(***************************************************************************)
(* The handlers of the main loop.                                          *)
(***************************************************************************)
cups_accept_cb(c) ==
    /\ c \notin cups_clients
    /\ cups_clients' = cups_clients \cup {c}
    /\ tx' = <<>>
    /\ sys' = <<>>
    /\ last' = [ev |-> "accept", cc |-> c]
    /\ snap' = NoSnap
    /\ UNCHANGED <<threads, sockets, rwlock, mt, gtp_endpoints, tun_devices, gtp_tunnels, subprocesses, procs, sigpending, indicated>>

\* cups_client_closed_cb() leaving the subprocesses of the client alone
cups_client_closed_cb_forgetful(cc, subs, pr) ==
    [subprocesses |-> subs, procs |-> pr, sys |-> <<>>]

\* cups_client_closed_cb() without the test of p->cups_client
cups_client_closed_cb_everyone(cc, subs, pr) ==
    subprocess_destroy_all([subprocesses |-> subs, procs |-> pr, sys |-> <<>>],
                           1, {subs[i].cups_client : i \in 1..Len(subs)}, SIGKILL)

\* kill and forget all subprocesses of this client, forget the client
cups_client_closed_cb(cc, subs, pr) ==
    subprocess_destroy_all([subprocesses |-> subs, procs |-> pr, sys |-> <<>>],
                           1, {cc}, SIGKILL)

\* rx: what sctp_recvmsg() yields: "recv_fail" (rc <= 0), "sctp_shutdown"
\* (the SCTP_SHUTDOWN_EVENT notification), "sctp_notification" (another
\* notification) or "data": the message jroot, Garbage when json_loadb()
\* cannot parse it
\* r is what cups_client_handle_json() made of the message: the daemon goes
\* on from there
dispatched(cc, jroot, os, r) ==
    /\ gtp_endpoints' = r.d.gtp_endpoints
    /\ threads' = r.d.threads
    /\ sockets' = r.d.sockets
    /\ tun_devices' = r.d.tun_devices
    /\ gtp_tunnels' = r.d.gtp_tunnels
    /\ subprocesses' = r.subprocesses
    /\ procs' = r.procs
    /\ tx' = r.tx
    /\ sys' = r.sys
    /\ last' = [ev |-> "data", cc |-> cc,
                key |-> IF jroot.jt = "object" THEN jroot.key ELSE "",
                case |-> CaseOf(jroot, os), pre |-> Len(gtp_tunnels),
                owners |-> {subprocesses[i].cups_client : i \in 1..Len(subprocesses)}]
    /\ snap' = SnapOf(jroot, os, IF r.tx = <<>> THEN "" ELSE r.tx[1].pdu.result)

\* osmo_stream_srv_destroy() called also when json_loadb() fails
conn_destroyed_on_garbage(rx, jroot) ==
    \/ rx \in {"recv_fail", "sctp_shutdown"}
    \/ rx = "data" /\ jroot.jt = "garbage"

\* what cups_client_read_cb() calls osmo_stream_srv_destroy() on
conn_destroyed(rx, jroot) == rx \in {"recv_fail", "sctp_shutdown"}

cups_client_read_cb(cc, rx, jroot, os) ==
    /\ cc \in cups_clients
    /\ IF conn_destroyed(rx, jroot) THEN
           LET w == cups_client_closed_cb(cc, subprocesses, procs) IN
           /\ subprocesses' = w.subprocesses
           /\ procs' = w.procs
           /\ sys' = w.sys
           /\ tx' = <<>>
           /\ cups_clients' = cups_clients \ {cc}
           /\ last' = [ev |-> rx, cc |-> cc]
           /\ snap' = NoSnap
           /\ UNCHANGED <<threads, sockets, rwlock, mt, gtp_endpoints, tun_devices, gtp_tunnels>>
       ELSE IF rx = "sctp_notification" THEN
           /\ tx' = <<>>
           /\ sys' = <<>>
           /\ last' = [ev |-> rx, cc |-> cc]
           /\ snap' = NoSnap
           /\ UNCHANGED <<threads, sockets, rwlock, mt, gtp_endpoints, tun_devices, gtp_tunnels, cups_clients,
                          subprocesses, procs>>
       ELSE IF jroot.jt = "garbage" THEN
           /\ tx' = <<>>
           /\ sys' = <<>>
           /\ last' = [ev |-> "data", cc |-> cc, key |-> "", case |-> CaseOf(jroot, os),
                       pre |-> Len(gtp_tunnels)]
           /\ snap' = NoSnap
           /\ UNCHANGED <<threads, sockets, rwlock, mt, gtp_endpoints, tun_devices, gtp_tunnels, cups_clients,
                          subprocesses, procs>>
       ELSE
           /\ dispatched(cc, jroot, os,
                         cups_client_handle_json(cc, jroot, D, subprocesses, procs, os))
           /\ UNCHANGED <<rwlock, mt, cups_clients>>
    /\ UNCHANGED <<sigpending, indicated>>

(***************************************************************************)
(* Children and signals.                                                   *)
(***************************************************************************)
ExitCodes == {0, 1}

\* A child terminates.  SIGCHLD is a standard signal: when one is pending
\* already, the kernel does not queue a second one, and its siginfo is lost.
ChildExit(pid, code) ==
    /\ procs[pid].st \in {"running", "killed"}
    /\ LET status == IF procs[pid].st = "killed" THEN SIGKILL ELSE code IN
       /\ procs' = [procs EXCEPT ![pid] = [st |-> "zombie", status |-> status]]
       /\ sigpending' = IF sigpending = <<>>
                        THEN <<[ssi_pid |-> pid, ssi_status |-> status]>>
                        ELSE sigpending
    /\ tx' = <<>>
    /\ sys' = <<>>
    /\ last' = [ev |-> "child_exit", pid |-> pid]
    /\ snap' = NoSnap
    /\ UNCHANGED <<threads, sockets, rwlock, mt, gtp_endpoints, tun_devices, gtp_tunnels, cups_clients,
                   subprocesses, indicated>>

\* returns [subprocesses, tx]
sigchild_cb(subs, fdsi) ==
    LET i == subprocess_by_pid(subs, fdsi.ssi_pid) IN
    IF i = 0 THEN [subprocesses |-> subs, tx |-> <<>>]
    ELSE [subprocesses |-> llist_del(subs, i),
          tx |-> cups_client_tx_json(subs[i].cups_client,
                                     gen_uecups_term_ind(fdsi.ssi_pid, fdsi.ssi_status))]

\* the main loop reads the pending SIGCHLD from the signalfd
signal_cb ==
    /\ sigpending # <<>>
    /\ LET r == sigchild_cb(subprocesses, sigpending[1]) IN
       /\ subprocesses' = r.subprocesses
       /\ tx' = r.tx
       /\ indicated' = IF r.tx = <<>> THEN indicated
                       ELSE [indicated EXCEPT ![r.tx[1].pdu.pid] = @ + 1]
    /\ sigpending' = <<>>
    /\ sys' = <<>>
    /\ last' = [ev |-> "sigchld", pid |-> sigpending[1].ssi_pid]
    /\ snap' = NoSnap
    /\ UNCHANGED <<threads, sockets, rwlock, mt, gtp_endpoints, tun_devices, gtp_tunnels, cups_clients, procs>>

(***************************************************************************)
(* Specifications.                                                         *)
(***************************************************************************)
\* a connection from one of these clients is accepted
Accept(pool) == \E c \in pool : cups_accept_cb(c)

\* a client sends one of these messages, and the system does one of the
\* things allowed; no more than MaxTunnels tunnels are asked for
Data(msgs, allowed) ==
    \E cc \in cups_clients : \E m \in msgs :
        /\ (/\ m.jt = "object" /\ m.key = "create_tun" /\ m.body \in ValidCreateTun
            /\ ~KeyInUse(D, AddrOf(m.body.local_gtp_ep), m.body.rx_teid.v))
           => Len(gtp_tunnels) < MaxTunnels
        /\ \E os \in OsOutcomes(m, allowed) : cups_client_read_cb(cc, "data", m, os)

Transport ==
    \E cc \in cups_clients : \E rx \in {"recv_fail", "sctp_shutdown", "sctp_notification"} :
        cups_client_read_cb(cc, rx, Garbage, NoOs)

Exit == \E pid \in Pids : \E code \in ExitCodes : ChildExit(pid, code)

\* The registry: one client sends create_tun, destroy_tun and reset_all_state.
RegistryCreates ==
    {b \in ValidCreateTun :
        \/ b.local_gtp_ep = JEp("IPV4", 4, 0, GTP1U_PORT)
        \/ b.rx_teid.v = 1}

RegistryMsgs ==
    {Cmd("create_tun", b) : b \in RegistryCreates}
    \cup {Cmd("destroy_tun", b) : b \in ValidDestroyTun}
    \cup {Cmd("reset_all_state", [jt |-> "object"])}

Next ==
    \/ Accept({1})
    \/ Data(RegistryMsgs, {"none", "bind", "tun_open"})

Spec == Init /\ [][Next]_vars

(***************************************************************************)
(* The registry's invariants.                                              *)
(***************************************************************************)
TunnelsOn(ep) == {i \in 1..Len(gtp_tunnels) : gtp_tunnels[i].gtp_ep = ep}
TunnelsBoundTo(tun) == {i \in 1..Len(gtp_tunnels) : gtp_tunnels[i].tun_dev = tun}

\* C1: each endpoint's use_count is the number of tunnels whose endpoint it
\* is, and each TUN device's use_count is the number of tunnels bound to it.
C1_UseCountIsNumberOfTunnels ==
    /\ \A j \in 1..Len(gtp_endpoints) :
           gtp_endpoints[j].use_count = Cardinality(TunnelsOn(gtp_endpoints[j].id))
    /\ \A j \in 1..Len(tun_devices) :
           tun_devices[j].use_count = Cardinality(TunnelsBoundTo(tun_devices[j].id))

\* a second tunnel was created on an endpoint and a TUN device in use
C1_Witness ==
    /\ \E j \in 1..Len(gtp_endpoints) : gtp_endpoints[j].use_count = 2
    /\ \E j \in 1..Len(tun_devices) : tun_devices[j].use_count = 2
    /\ last.ev = "data" /\ last.key = "create_tun" /\ last.case = "fresh"

\* the bind address of the endpoint at address ep
BindAddrOf(ep) == gtp_endpoints[IdxOf(gtp_endpoints, ep)].bind_addr

\* C2: no two tunnels share (bind address of the local endpoint, rx_teid).
C2_TunnelKeyUnique ==
    \A i, j \in 1..Len(gtp_tunnels) :
        (/\ i # j
         /\ gtp_tunnels[i].rx_teid = gtp_tunnels[j].rx_teid)
        => BindAddrOf(gtp_tunnels[i].gtp_ep) # BindAddrOf(gtp_tunnels[j].gtp_ep)

\* two tunnels with the same rx_teid on two endpoints, and a create_tun of a
\* key in use was just refused
C2_Witness ==
    /\ \E i, j \in 1..Len(gtp_tunnels) :
           /\ i # j
           /\ gtp_tunnels[i].rx_teid = gtp_tunnels[j].rx_teid
    /\ last.ev = "data" /\ last.key = "create_tun" /\ last.case = "duplicate"

\* C3: no two endpoints have equal bind addresses, no two TUN devices the
\* same (name, namespace name); a create_tun for a bound address reuses the
\* endpoint.
C3_EndpointAndTunUnique ==
    /\ \A i, j \in 1..Len(gtp_endpoints) :
           i # j => gtp_endpoints[i].bind_addr # gtp_endpoints[j].bind_addr
    /\ \A i, j \in 1..Len(tun_devices) :
           i # j => \/ tun_devices[i].devname # tun_devices[j].devname
                    \/ tun_devices[i].netns_name # tun_devices[j].netns_name

\* a second tunnel was created, and there is one endpoint and one TUN device
C3_Witness ==
    /\ Len(gtp_endpoints) = 1
    /\ Len(tun_devices) = 1
    /\ Len(gtp_tunnels) = 2
    /\ last.ev = "data" /\ last.key = "create_tun" /\ last.case = "fresh"

\* C4: after reset_all_state the tunnel, endpoint and TUN device lists are
\* empty, and the client that sent it is sent reset_all_state_res with
\* result OK.
C4_ResetEmptiesRegistry ==
    (last.ev = "data" /\ last.key = "reset_all_state")
    => /\ gtp_tunnels = <<>>
       /\ gtp_endpoints = <<>>
       /\ tun_devices = <<>>
       /\ tx = <<[to |-> last.cc, pdu |-> [name |-> "reset_all_state_res", result |-> "OK"]]>>

\* reset_all_state was handled when there were two tunnels
C4_Witness ==
    /\ last.ev = "data" /\ last.key = "reset_all_state"
    /\ last.pre = 2

\* C5: a create_tun of a key not in use whose system calls succeed, followed
\* by a destroy_tun of the same local_gtp_ep and rx_teid: both are answered
\* OK, and the registry is what it was before the create_tun.
C5_CreateThenDestroyRestores ==
    (snap.stage = "destroyed" /\ snap.case = "fresh")
    => /\ snap.cres = "OK"
       /\ snap.dres = "OK"
       /\ D = snap.before

\* such a pair was handled when there was a tunnel on the same endpoint
C5_Witness ==
    /\ snap.stage = "destroyed" /\ snap.case = "fresh"
    /\ \E j \in 1..Len(snap.before.gtp_endpoints) :
           snap.before.gtp_endpoints[j].bind_addr = AddrOf(snap.ep)

\* C6: a well-formed create_tun of a key in use is answered create_tun_res
\* with result ERR_NOT_FOUND, and leaves the registry as it was.
C6_DuplicateCreateRefused ==
    [][(last'.ev = "data" /\ last'.key = "create_tun" /\ last'.case = "duplicate")
       => /\ D' = D
          /\ tx' = <<[to |-> last'.cc,
                      pdu |-> [name |-> "create_tun_res", result |-> "ERR_NOT_FOUND"]]>>]_vars

\* a create_tun of a key in use was handled, and there are two tunnels
C6_Witness ==
    /\ last.ev = "data" /\ last.key = "create_tun" /\ last.case = "duplicate"
    /\ Len(gtp_tunnels) = 2

\* C7: a well-formed destroy_tun of a key with no tunnel is answered
\* destroy_tun_res with result ERR_NOT_FOUND, and leaves the registry as it
\* was.
C7_DestroyOfMissingRefused ==
    [][(last'.ev = "data" /\ last'.key = "destroy_tun" /\ last'.case = "missing")
       => /\ D' = D
          /\ tx' = <<[to |-> last'.cc,
                      pdu |-> [name |-> "destroy_tun_res", result |-> "ERR_NOT_FOUND"]]>>]_vars

\* a destroy_tun of a key with no tunnel was handled, and there is a tunnel
\* of another key
C7_Witness ==
    /\ last.ev = "data" /\ last.key = "destroy_tun" /\ last.case = "missing"
    /\ Len(gtp_tunnels) >= 1

(***************************************************************************)
(* The control protocol: the clients send every kind of message, well      *)
(* formed or not, and come and go; no program gets started.                *)
(***************************************************************************)
ControlMsgs ==
    {Garbage, JArray, EmptyObject, Cmd("bogus", [jt |-> "object"])}
    \cup {Cmd("create_tun", b) : b \in MalformedCreateTun}
    \cup {Cmd("create_tun", CreateTun(JEp("IPV4", 4, 0, GTP1U_PORT), 1, "tun0", ns)) :
             ns \in {JAbsent, JStr("ns1")}}
    \cup {Cmd("destroy_tun", b) : b \in MalformedDestroyTun}
    \cup {Cmd("destroy_tun", DestroyTun(JEp("IPV4", 4, 0, GTP1U_PORT), 1))}
    \cup {Cmd("start_program", b) : b \in MalformedStartProgram \cup ValidStartProgram}
    \cup {Cmd("reset_all_state", JAbsent)}

NextControl ==
    \/ Accept(ClientIds)
    \/ Data(ControlMsgs, EpFailures \cup TunFailures \cup (StartOutcomes \ {"started"}))
    \/ Transport

SpecControl == Init /\ [][NextControl]_vars

\* the one response sent is <command>_res with this result, to the sender
Answered(t, cc, key, result) ==
    /\ Len(t) = 1
    /\ t[1].to = cc
    /\ t[1].pdu.name = key \o "_res"
    /\ t[1].pdu.result = result

C9_UnknownNetnsRefused ==
    [][(last'.ev = "data" /\ last'.key = "start_program" /\ last'.case = "unknown_netns")
       => /\ tx' = <<[to |-> last'.cc,
                      pdu |-> [name |-> "start_program_res", result |-> "ERR_INVALID_DATA"]]>>
          /\ sys' = <<>>
          /\ procs' = procs
          /\ subprocesses' = subprocesses]_vars

\* such a start_program was handled when there was a TUN device, of the
\* daemon's own namespace
C9_Witness ==
    /\ last.ev = "data" /\ last.key = "start_program" /\ last.case = "unknown_netns"
    /\ Len(tun_devices) = 1

(***************************************************************************)
(* The supervision of subprocesses: clients start programs, the children   *)
(* terminate, the main loop reads the signalfd whenever it is readable.    *)
(***************************************************************************)
SupervisorMsgs ==
    {Cmd("start_program", StartProgram(JAbsent, JAbsent)), Cmd("reset_all_state", JAbsent)}

NextSupervisor ==
    \/ Accept(ClientIds)
    \/ Data(SupervisorMsgs, {"fork", "sproc_alloc", "started"})
    \/ Transport
    \/ Exit
    \/ signal_cb

SpecSupervisor == Init /\ [][NextSupervisor]_vars /\ WF_vars(signal_cb)

HasRecord(pid, cc) ==
    \E i \in 1..Len(subprocesses) :
        subprocesses[i].pid = pid /\ subprocesses[i].cups_client = cc

\* C10 as stated: a child with a subprocess record that has terminated while
\* its client is connected leads to program_term_ind, with its pid and exit
\* status, being sent to that client and the record being removed, unless the
\* client disconnects or reset_all_state forgets the child first.
C10_TerminationIndicated ==
    \A pid \in Pids : \A cc \in ClientIds :
        (procs[pid].st = "zombie" /\ HasRecord(pid, cc) /\ cc \in cups_clients)
        ~> \/ /\ tx = <<[to |-> cc,
                         pdu |-> [name |-> "program_term_ind", pid |-> pid,
                                  exit_code |-> procs[pid].status]]>>
              /\ ~HasRecord(pid, cc)
           \/ cc \notin cups_clients
           \/ last.ev = "data" /\ last.key = "reset_all_state"

\* two children of a connected client have terminated before the main loop
\* read the signalfd
C10_Witness ==
    /\ sigpending # <<>>
    /\ \E cc \in cups_clients : \A pid \in {1, 2} :
           procs[pid].st = "zombie" /\ HasRecord(pid, cc)

(***************************************************************************)
(* Clients and their subprocesses: the clients start programs, create a    *)
(* tunnel, reset, and come and go; no child terminates by itself.          *)
(***************************************************************************)
ClientMsgs ==
    {Cmd("start_program", StartProgram(JAbsent, JAbsent)),
     Cmd("reset_all_state", JAbsent),
     Cmd("create_tun", CreateTun(JEp("IPV4", 4, 0, GTP1U_PORT), 1, "tun0", JAbsent))}

NextClients ==
    \/ Accept(ClientIds)
    \/ Data(ClientMsgs, {"none", "started"})
    \/ Transport

SpecClients == Init /\ [][NextClients]_vars

\* the subprocess records of client cc, and the others, in the order of the list
OwnedBy(cc) == SelectSeq(subprocesses, LAMBDA r : r.cups_client = cc)
NotOwnedBy(cc) == SelectSeq(subprocesses, LAMBDA r : r.cups_client # cc)

\* one kill(pid, SIGKILL) for each of these records, in their order
Kills(records) ==
    [i \in 1..Len(records) |-> [call |-> "kill", pid |-> records[i].pid, sig |-> SIGKILL]]

\* C11: when a control connection closes, every subprocess of that client is
\* sent SIGKILL and its record removed, and the client is removed; the
\* records of the other clients and the registry stay as they were.
C11_CloseKillsOwnSubprocesses ==
    [][last'.ev \in {"recv_fail", "sctp_shutdown"}
       => /\ sys' = Kills(OwnedBy(last'.cc))
          /\ subprocesses' = NotOwnedBy(last'.cc)
          /\ \A pid \in Pids :
                 procs'[pid] = IF /\ \E i \in 1..Len(subprocesses) :
                                        /\ subprocesses[i].pid = pid
                                        /\ subprocesses[i].cups_client = last'.cc
                                  /\ procs[pid].st = "running"
                               THEN [procs[pid] EXCEPT !.st = "killed"]
                               ELSE procs[pid]
          /\ cups_clients' = cups_clients \ {last'.cc}
          /\ D' = D]_vars

\* a connection closed and a child was killed, while another client's record
\* and a tunnel were there
C11_Witness ==
    /\ last.ev \in {"recv_fail", "sctp_shutdown"}
    /\ sys # <<>>
    /\ subprocesses # <<>>
    /\ gtp_tunnels # <<>>

\* C12: reset_all_state sends SIGKILL to every subprocess there is, those of
\* other clients too, and leaves the subprocess list empty; the tunnels are
\* destroyed before the subprocesses are killed.
C12_ResetKillsAllSubprocesses ==
    [][(last'.ev = "data" /\ last'.key = "reset_all_state")
       => /\ subprocesses' = <<>>
          /\ Len(sys') = Len(gtp_tunnels) + Len(subprocesses)
          /\ \A i \in 1..Len(gtp_tunnels) : sys'[i].call = "_gtp_tunnel_destroy"
          /\ SubSeq(sys', Len(gtp_tunnels) + 1, Len(sys')) = Kills(subprocesses)
          /\ \A pid \in Pids :
                 procs'[pid] = IF /\ \E i \in 1..Len(subprocesses) : subprocesses[i].pid = pid
                                  /\ procs[pid].st = "running"
                               THEN [procs[pid] EXCEPT !.st = "killed"]
                               ELSE procs[pid]]_vars

\* reset_all_state was handled when there were a tunnel and a subprocess of
\* another client
C12_Witness ==
    /\ last.ev = "data" /\ last.key = "reset_all_state"
    /\ last.owners \ {last.cc} # {}
    /\ Len(sys) >= 2
    /\ sys[1].call = "_gtp_tunnel_destroy"

\* C17: a control connection is destroyed only when the receive fails or
\* ends, or an SCTP shutdown notification arrives; whatever a message holds,
\* its sender stays connected.
C17_OnlyTransportClosesConnection ==
    [][/\ last'.ev = "data" => cups_clients' = cups_clients
       /\ cups_clients \ cups_clients' # {} => last'.ev \in {"recv_fail", "sctp_shutdown"}]_vars

\* a client sent what is not JSON and is connected still
C17_Witness ==
    /\ last.ev = "data" /\ last.case = "malformed_json"
    /\ last.cc \in cups_clients

(***************************************************************************)
(* The endpoint workers (gtp_endpoint_thread) next to the main thread.     *)
(* A datagram is [nread, flags, type, length, tid]: the number of bytes    *)
(* received and the values its header carries, length and tid as ntohs()   *)
(* and ntohl() return them.  The descriptor of a TUN device is named by    *)
(* the device's address, and is open for as long as the device is in       *)
(* d->tun_devices; a released address may be handed out again, as the      *)
(* number of a closed descriptor may.                                      *)
(***************************************************************************)
Dg(nread, flags, type, length, tid) ==
    [nread |-> nread, flags |-> flags, type |-> type, length |-> length, tid |-> tid]

\* too short for a header, wrong flags, wrong type, longer than received;
\* then one for TEID 1 that is as long as its header says, and one for TEID 2
\* that carries a byte more
Datagrams ==
    {Dg(4, GTP1_FLAGS, GTP_TPDU, 0, 1),
     Dg(9, GTP1_FLAGS + 2, GTP_TPDU, 1, 1),
     Dg(9, GTP1_FLAGS, 1, 1, 1),
     Dg(9, GTP1_FLAGS, GTP_TPDU, 2, 1)}
    \cup {Dg(9, GTP1_FLAGS, GTP_TPDU, 1, 1), Dg(10, GTP1_FLAGS, GTP_TPDU, 1, 2)}

\* the checks of the header without the one of the length
header_check_unbounded(dg) ==
    IF dg.nread < GTP1_HEADER_LEN THEN "short_read"
    ELSE IF dg.flags # GTP1_FLAGS THEN "flags"
    ELSE IF dg.type # GTP_TPDU THEN "type"
    ELSE ""

\* the checks of the header, in the order of the code; "" when it passes
header_check(dg) ==
    IF dg.nread < GTP1_HEADER_LEN THEN "short_read"
    ELSE IF dg.flags # GTP1_FLAGS THEN "flags"
    ELSE IF dg.type # GTP_TPDU THEN "type"
    ELSE IF GTP1_HEADER_LEN + dg.length > dg.nread THEN "short_message"
    ELSE ""

\* a < b for an int a converted to size_t and a size_t b, both written as
\* integers: a negative a stands for the huge value it converts to
ULt(a, b) == IF a < 0 THEN b < 0 /\ a < b ELSE b < 0 \/ a < b

\* the test of the result of write(): rc < nread-sizeof(struct gtp1_header),
\* compared as size_t
write_failed(rc, nread, length) == ULt(rc, nread - GTP1_HEADER_LEN)

\* what write(outfd, ..., count) can return: all of it, a part, or an error;
\* on a closed descriptor an error
write_results(open, count) == IF open THEN (0 - 1)..count ELSE {0 - 1}

TunIds(d) == {d.tun_devices[i].id : i \in 1..Len(d.tun_devices)}

\* exit() was called
Exited == \E i \in 1..Len(sys) : sys[i].call = "exit"

\* the thread leaves the table
thread_exit(ths, tid) == [t \in DOMAIN ths \ {tid} |-> ths[t]]

\* the other variables of a step of a worker
WorkerFrame ==
    /\ tx' = <<>>
    /\ snap' = snap
    /\ UNCHANGED <<sockets, mt, gtp_endpoints, tun_devices, gtp_tunnels, cups_clients,
                   subprocesses, procs, sigpending, indicated>>

\* 1) read GTP packet from UDP socket, check the header
worker_recvfrom(tid, rc, dg) ==
    /\ ~Exited
    /\ tid \in DOMAIN threads
    /\ threads[tid].pc = "recvfrom"
    /\ last' = [ev |-> "recvfrom", rc |-> rc, dg |-> dg]
    /\ IF rc < 0 THEN
           /\ sys' = <<[call |-> "exit", status |-> 1]>>
           /\ UNCHANGED <<threads, rwlock>>
       ELSE IF header_check(dg) # "" THEN
           /\ sys' = <<>>
           /\ UNCHANGED <<threads, rwlock>>
       ELSE
           /\ sys' = <<>>
           /\ threads' = [threads EXCEPT ![tid].pc = "rdlock", ![tid].teid = dg.tid,
                                         ![tid].length = dg.length,
                                         ![tid].nread = dg.nread]
           /\ UNCHANGED rwlock
    /\ WorkerFrame

\* pthread_rwlock_rdlock(): waits while the main thread holds the lock
worker_rdlock(tid) ==
    /\ ~Exited
    /\ tid \in DOMAIN threads
    /\ threads[tid].pc = "rdlock"
    /\ ~rwlock.writer
    /\ rwlock' = [rwlock EXCEPT !.readers = @ \cup {tid}]
    /\ threads' = [threads EXCEPT ![tid].pc = "lookup"]
    /\ last' = [ev |-> "rdlock"]
    /\ sys' = <<>>
    /\ WorkerFrame

\* the look-up of the worker keeping the lock when it finds no tunnel
worker_lookup_holding(th, d, lock, tid) ==
    LET i == _gtp_tunnel_find_r(d, th.teid, th.ep) IN
    IF i = 0
    THEN [th |-> [gtp_endpoint_thread(th.ep) EXCEPT !.cancelled = th.cancelled],
          rwlock |-> lock]
    ELSE [th |-> [th EXCEPT !.pc = "write", !.outfd = d.gtp_tunnels[i].tun_dev],
          rwlock |-> [lock EXCEPT !.readers = @ \ {tid}]]

\* 2) look-up tunnel based on TEID: on a miss unlock and go on with the next
\* packet, on a hit take the descriptor of the TUN device and unlock
worker_lookup(th, d, lock, tid) ==
    LET i == _gtp_tunnel_find_r(d, th.teid, th.ep) IN
    IF i = 0
    THEN [th |-> [gtp_endpoint_thread(th.ep) EXCEPT !.cancelled = th.cancelled],
          rwlock |-> [lock EXCEPT !.readers = @ \ {tid}]]
    ELSE [th |-> [th EXCEPT !.pc = "write", !.outfd = d.gtp_tunnels[i].tun_dev],
          rwlock |-> [lock EXCEPT !.readers = @ \ {tid}]]

\* The thread has reached th.pc; a thread that was cancelled in between ends
\* at the next blocking call (the logging of the miss, recvfrom, write).
worker_lookup_step(tid) ==
    /\ ~Exited
    /\ tid \in DOMAIN threads
    /\ threads[tid].pc = "lookup"
    /\ LET r == worker_lookup(threads[tid], D, rwlock, tid) IN
       /\ rwlock' = r.rwlock
       /\ threads' = IF r.th.cancelled THEN thread_exit(threads, tid)
                     ELSE [threads EXCEPT ![tid] = r.th]
       /\ last' = [ev |-> "lookup", teid |-> threads[tid].teid, ep |-> threads[tid].ep]
    /\ sys' = <<>>
    /\ WorkerFrame

\* 3) write to TUN device, and exit() when the result is too small
worker_write(tid, rc) ==
    /\ ~Exited
    /\ tid \in DOMAIN threads
    /\ threads[tid].pc = "write"
    /\ LET th == threads[tid] IN
       /\ rc \in write_results(th.outfd \in TunIds(D), th.length)
       /\ sys' = <<[call |-> "write", fd |-> th.outfd, count |-> th.length, rc |-> rc]>>
                 \o IF write_failed(rc, th.nread, th.length)
                    THEN <<[call |-> "exit", status |-> 1]>> ELSE <<>>
       /\ last' = [ev |-> "write", nread |-> th.nread]
       /\ threads' = [threads EXCEPT ![tid] = gtp_endpoint_thread(th.ep)]
    /\ UNCHANGED rwlock
    /\ WorkerFrame

(***************************************************************************)
(* The main thread, one critical section of a command at a time.  mt is    *)
(* [pc, next, cc, key, tpars, os, ep, tun, res]: the section it is to      *)
(* enter, where it goes after the pthread_rwlock_unlock(), the command and *)
(* its parameters, what the system will do, the endpoint and the TUN       *)
(* device acquired, and the result to answer.                              *)
(***************************************************************************)
Sections ==
    {"gtp_endpoint_find_or_create", "tun_device_find_or_create", "gtp_tunnel_alloc",
     "gtp_endpoint_release", "gtp_tunnel_destroy", "reset_all_state"}

\* the sections entered without pthread_rwlock_wrlock(), were
\* gtp_endpoint_release() to call _gtp_endpoint_release() right away
wrlock_but_release(section) == section # "gtp_endpoint_release"

\* the sections entered through pthread_rwlock_wrlock(): all of them
wrlock(section) == section \in Sections

\* what the section does to the registry, and where the main thread goes on
section_body(m, d) ==
    IF m.pc = "gtp_endpoint_find_or_create" THEN
        LET e == gtp_endpoint_find_or_create(d, m.tpars.local_udp, m.os.ep_mem, m.os.ep_fail)
        IN [d |-> e.d,
            m |-> [m EXCEPT !.ep = e.ep,
                            !.res = IF e.ep = NULL THEN "ERR_NOT_FOUND" ELSE @,
                            !.next = IF e.ep = NULL THEN "respond"
                                     ELSE "tun_device_find_or_create"]]
    ELSE IF m.pc = "tun_device_find_or_create" THEN
        LET u == tun_device_find_or_create(d, m.tpars.tun_name, m.tpars.tun_netns_name,
                                           m.os.tun_mem, m.os.tun_fail)
        IN [d |-> u.d,
            m |-> [m EXCEPT !.tun = u.tun,
                            !.res = IF u.tun = NULL THEN "ERR_NOT_FOUND" ELSE @,
                            !.next = IF u.tun = NULL THEN "gtp_endpoint_release"
                                     ELSE "gtp_tunnel_alloc"]]
    ELSE IF m.pc = "gtp_endpoint_release" THEN
        [d |-> _gtp_endpoint_release(d, m.ep), m |-> [m EXCEPT !.next = "respond"]]
    ELSE IF m.pc = "gtp_tunnel_alloc" THEN
        IF _gtp_tunnel_find_r(d, m.tpars.rx_teid, m.ep) # 0
        THEN [d |-> _tun_device_release(_gtp_endpoint_release(d, m.ep), m.tun),
              m |-> [m EXCEPT !.res = "ERR_NOT_FOUND", !.next = "respond"]]
        ELSE [d |-> [d EXCEPT !.gtp_tunnels =
                        Append(@, [gtp_ep |-> m.ep, tun_dev |-> m.tun,
                                   rx_teid |-> m.tpars.rx_teid])],
              m |-> [m EXCEPT !.res = "OK", !.next = "respond"]]
    ELSE IF m.pc = "gtp_tunnel_destroy" THEN
        LET r == gtp_tunnel_destroy(d, m.tpars.local_udp, m.tpars.rx_teid)
        IN [d |-> r.d,
            m |-> [m EXCEPT !.ep = _gtp_endpoint_find(d, m.tpars.local_udp),
                            !.res = IF r.rc < 0 THEN "ERR_NOT_FOUND" ELSE "OK",
                            !.next = "respond"]]
    ELSE [d |-> destroy_all_tunnels(d), m |-> [m EXCEPT !.res = "OK", !.next = "respond"]]

\* the main thread reads a command and parses it
mt_read(cc, jroot, os) ==
    /\ ~Exited
    /\ mt = Idle
    /\ cc \in cups_clients
    /\ LET m == [pc |-> "", next |-> "", cc |-> cc, key |-> jroot.key, tpars |-> NULL,
                 os |-> os, ep |-> NULL, tun |-> NULL, res |-> ""] IN
       mt' = IF jroot.key = "create_tun"
             THEN [m EXCEPT !.pc = "gtp_endpoint_find_or_create",
                            !.tpars = parse_create_tun(jroot.body).out]
             ELSE IF jroot.key = "destroy_tun"
             THEN [m EXCEPT !.pc = "gtp_tunnel_destroy",
                            !.tpars = [local_udp |-> parse_ep(jroot.body.local_gtp_ep).out,
                                       rx_teid |-> jroot.body.rx_teid.v]]
             ELSE [m EXCEPT !.pc = "reset_all_state"]
    /\ tx' = <<>>
    /\ sys' = <<>>
    /\ last' = [ev |-> "read", cc |-> cc, key |-> jroot.key]
    /\ snap' = NoSnap
    /\ UNCHANGED <<threads, sockets, rwlock, gtp_endpoints, tun_devices, gtp_tunnels,
                   cups_clients, subprocesses, procs, sigpending, indicated>>

\* pthread_rwlock_wrlock(), which waits until nobody holds the lock, and the
\* section up to its pthread_rwlock_unlock()
mt_section ==
    /\ ~Exited
    /\ mt # Idle
    /\ mt.pc \in Sections
    /\ wrlock(mt.pc) => (~rwlock.writer /\ rwlock.readers = {})
    /\ LET r == section_body(mt, D) IN
       /\ gtp_endpoints' = r.d.gtp_endpoints
       /\ tun_devices' = r.d.tun_devices
       /\ gtp_tunnels' = r.d.gtp_tunnels
       /\ threads' = r.d.threads
       /\ sockets' = r.d.sockets
       /\ IF wrlock(mt.pc)
          THEN /\ rwlock' = [rwlock EXCEPT !.writer = TRUE]
               /\ mt' = [r.m EXCEPT !.pc = "unlock"]
          ELSE /\ rwlock' = rwlock
               /\ mt' = [r.m EXCEPT !.pc = r.m.next]
    /\ tx' = <<>>
    /\ sys' = <<>>
    /\ last' = [ev |-> "section", section |-> mt.pc]
    /\ snap' = snap
    /\ UNCHANGED <<cups_clients, subprocesses, procs, sigpending, indicated>>

\* pthread_rwlock_unlock()
mt_unlock ==
    /\ ~Exited
    /\ mt # Idle
    /\ mt.pc = "unlock"
    /\ rwlock' = [rwlock EXCEPT !.writer = FALSE]
    /\ mt' = [mt EXCEPT !.pc = mt.next]
    /\ tx' = <<>>
    /\ sys' = <<>>
    /\ last' = [ev |-> "unlock"]
    /\ snap' = snap
    /\ UNCHANGED <<threads, sockets, gtp_endpoints, tun_devices, gtp_tunnels,
                   cups_clients, subprocesses, procs, sigpending, indicated>>

\* the handler sends its response and returns to the event loop;
\* reset_all_state kills the subprocesses first
mt_respond ==
    /\ ~Exited
    /\ mt # Idle
    /\ mt.pc = "respond"
    /\ LET w == IF mt.key # "reset_all_state"
                THEN [subprocesses |-> subprocesses, procs |-> procs, sys |-> <<>>]
                ELSE subprocess_destroy_all(
                         [subprocesses |-> subprocesses, procs |-> procs, sys |-> <<>>], 1,
                         {subprocesses[i].cups_client : i \in 1..Len(subprocesses)}, SIGKILL)
       IN /\ subprocesses' = w.subprocesses
          /\ procs' = w.procs
          /\ sys' = w.sys
    /\ tx' = cups_client_tx_json(mt.cc, gen_uecups_result(mt.key \o "_res", mt.res))
    /\ mt' = Idle
    /\ last' = [ev |-> "respond", cc |-> mt.cc, key |-> mt.key, res |-> mt.res]
    /\ snap' = IF mt.key = "destroy_tun" /\ mt.res = "OK"
               THEN [stage |-> "destroyed", ep |-> mt.ep, rx_teid |-> mt.tpars.rx_teid]
               ELSE NoSnap
    /\ UNCHANGED <<threads, sockets, rwlock, gtp_endpoints, tun_devices, gtp_tunnels,
                   cups_clients, sigpending, indicated>>

\* the tunnels asked for: two on one endpoint, with a TUN device each (tun0
\* in the daemon's namespace, tun1 in ns1)
ThreadCreates ==
    {CreateTun(JEp("IPV4", 4, 0, GTP1U_PORT), 1, "tun0", JAbsent),
     CreateTun(JEp("IPV4", 4, 0, GTP1U_PORT), 2, "tun1", JStr("ns1"))}

ThreadMsgs ==
    {Cmd("create_tun", b) : b \in ThreadCreates}
    \cup {Cmd("destroy_tun", DestroyTun(b.local_gtp_ep, b.rx_teid.v)) : b \in ThreadCreates}
    \cup {Cmd("reset_all_state", [jt |-> "object"])}

MainThread ==
    \/ ~Exited /\ mt = Idle /\ Accept({1})
    \/ \E cc \in cups_clients : \E m \in ThreadMsgs :
          /\ (m.key = "create_tun" /\ ~KeyInUse(D, AddrOf(m.body.local_gtp_ep), m.body.rx_teid.v))
             => Len(gtp_tunnels) < MaxTunnels
          /\ \E os \in OsOutcomes(m, {"none", "bind", "pthread_create", "tun_open"}) :
                 mt_read(cc, m, os)
    \/ mt_section
    \/ mt_unlock
    \/ mt_respond

Workers ==
    \E tid \in DOMAIN threads :
        \/ \E rc \in {0 - 1, 0} : \E dg \in Datagrams : worker_recvfrom(tid, rc, dg)
        \/ worker_rdlock(tid)
        \/ worker_lookup_step(tid)
        \/ \E rc \in (0 - 1)..1 : worker_write(tid, rc)

NextThreads == MainThread \/ Workers

SpecThreads == Init /\ [][NextThreads]_vars

\* the three lists of the registry
Registry == <<gtp_endpoints, tun_devices, gtp_tunnels>>

\* no tunnel has this TEID on this endpoint
NoTunnel(teid, ep) ==
    \A i \in 1..Len(gtp_tunnels) :
        ~(gtp_tunnels[i].rx_teid = teid /\ gtp_tunnels[i].gtp_ep = ep)

\* C13: a datagram shorter than the 8 bytes of the header, or with flags
\* other than 0x30, or of a type other than 0xFF, or whose length + 8 exceeds
\* what was received, or whose TEID has no tunnel on this endpoint, is
\* dropped: nothing is written, the registry is unchanged, the process does
\* not exit and the worker receives the next datagram.
C13_BadDatagramsDropped ==
    [][/\ (/\ last'.ev = "recvfrom" /\ last'.rc >= 0
           /\ \/ last'.dg.nread < 8
              \/ last'.dg.flags # 48
              \/ last'.dg.type # 255
              \/ last'.dg.length + 8 > last'.dg.nread)
          => /\ sys' = <<>>
             /\ Registry' = Registry
             /\ threads' = threads
             /\ rwlock' = rwlock
       /\ (last'.ev = "lookup" /\ NoTunnel(last'.teid, last'.ep))
          => /\ sys' = <<>>
             /\ Registry' = Registry
             /\ \E tid \in DOMAIN threads :
                    /\ threads[tid].pc = "lookup"
                    /\ tid \notin rwlock'.readers
                    /\ IF threads[tid].cancelled
                       THEN threads' = thread_exit(threads, tid)
                       ELSE threads' = [threads EXCEPT
                                           ![tid] = gtp_endpoint_thread(threads[tid].ep)]]_vars

\* a worker found no tunnel for the TEID of its datagram while its endpoint
\* had one for another TEID, and waits for the next datagram
C13_Witness ==
    /\ last.ev = "lookup"
    /\ NoTunnel(last.teid, last.ep)
    /\ \E i \in 1..Len(gtp_tunnels) : gtp_tunnels[i].gtp_ep = last.ep
    /\ \E tid \in DOMAIN threads : threads[tid].ep = last.ep /\ threads[tid].pc = "recvfrom"
    /\ ~Exited

\* C14: the descriptor a worker took under the reader lock is that of an
\* open TUN device when the worker writes to it.
C14_SnapshotFdOpenAtWrite ==
    last.ev = "write" => sys[1].fd \in TunIds(D)

\* a worker has written to a descriptor whose TUN device is gone, and the
\* process goes on
C14_Witness ==
    /\ last.ev = "write"
    /\ sys[1].fd \notin TunIds(D)
    /\ sys[1].rc < 0
    /\ ~Exited

\* C15: destroy_tun_res OK is sent when the tunnel is out of the list and
\* the writer lock released; a worker that looks the tunnel up after that
\* finds nothing and writes nothing.
C15_DestroyedTunnelNotFound ==
    [][/\ (last'.ev = "respond" /\ last'.key = "destroy_tun" /\ last'.res = "OK")
          => /\ ~rwlock.writer
             /\ NoTunnel(mt.tpars.rx_teid, mt.ep)
       /\ (/\ snap.stage = "destroyed" /\ last'.ev = "lookup"
           /\ last'.teid = snap.rx_teid /\ last'.ep = snap.ep)
          => /\ NoTunnel(snap.rx_teid, snap.ep)
             /\ sys' = <<>>
             /\ \A tid \in DOMAIN threads' : threads'[tid].pc # "write"
                                             \/ threads[tid].pc = "write"]_vars

\* after the response, a worker of the endpoint, which lives on with another
\* tunnel, looked the TEID of the destroyed tunnel up
C15_Witness ==
    /\ snap.stage = "destroyed"
    /\ last.ev = "lookup" /\ last.teid = snap.rx_teid /\ last.ep = snap.ep
    /\ \E i \in 1..Len(gtp_endpoints) : gtp_endpoints[i].id = snap.ep
    /\ gtp_tunnels # <<>>

\* C16: a worker holds the rwlock only between pthread_rwlock_rdlock() and
\* the end of the look-up: never in recvfrom() or write(), where it blocks
\* and where a cancellation takes effect, and never after it has ended.
C16_NoLockAtCancellationPoint ==
    /\ rwlock.readers \subseteq DOMAIN threads
    /\ \A tid \in rwlock.readers : threads[tid].pc \notin CancellationPoints
    /\ \A tid \in rwlock.readers : threads[tid].pc = "lookup"

\* a worker whose endpoint was destroyed, and which is to be cancelled,
\* holds the reader lock
C16_Witness ==
    \E tid \in DOMAIN threads : threads[tid].cancelled /\ tid \in rwlock.readers

\* C18: the registry (the lists and the use counts) changes only in a step
\* of the main thread that holds the writer lock, while no worker holds the
\* reader lock; no step of a worker changes it.
C18_RegistryChangesUnderWriterLock ==
    [][Registry' # Registry
       => /\ last'.ev = "section"
          /\ rwlock'.writer
          /\ rwlock.readers = {} /\ rwlock'.readers = {}]_vars

\* the main thread holds the writer lock after destroying an endpoint, and
\* a worker waits for the lock
C18_Witness ==
    /\ rwlock.writer
    /\ last.ev = "section" /\ last.section = "gtp_tunnel_destroy"
    /\ gtp_endpoints = <<>>
    /\ \E tid \in DOMAIN threads : threads[tid].pc = "rdlock"

\* C19: the worker writes the header.length bytes of the payload to the TUN
\* device of the tunnel, and the process exits exactly when write() returned
\* less than that, -1 included.
C19_ExitIffShortWrite ==
    last.ev = "write"
    => /\ sys[1].call = "write"
       /\ Exited <=> sys[1].rc < sys[1].count

\* write() wrote the whole payload of a datagram with a trailing byte, and
\* the process exited
C19_Witness ==
    /\ last.ev = "write"
    /\ last.nread > sys[1].count + 8
    /\ sys[1].rc = sys[1].count
    /\ Exited

TunnelsOf(d, ep) == {i \in 1..Len(d.gtp_tunnels) : d.gtp_tunnels[i].gtp_ep = ep}

\* the registry becomes r.d
registry_becomes(r) ==
    /\ gtp_endpoints' = r.d.gtp_endpoints
    /\ tun_devices' = r.d.tun_devices
    /\ gtp_tunnels' = r.d.gtp_tunnels
    /\ threads' = r.d.threads
    /\ sockets' = r.d.sockets

\* a reference to the endpoint bound to addr is taken, the endpoint being
\* created if there is none; no more than MaxHolds references of an endpoint
\* are held outside the tunnels
Hold(addr) ==
    /\ \A j \in 1..Len(gtp_endpoints) :
           gtp_endpoints[j].bind_addr = addr
           => gtp_endpoints[j].use_count
                  < Cardinality(TunnelsOf(D, gtp_endpoints[j].id)) + MaxHolds
    /\ registry_becomes(gtp_endpoint_find_or_create(D, addr, EpAlloc(addr), "none"))
    /\ tx' = <<>>
    /\ sys' = <<>>
    /\ last' = [ev |-> "hold", addr |-> addr]
    /\ snap' = NoSnap
    /\ UNCHANGED <<rwlock, mt, cups_clients, subprocesses, procs, sigpending, indicated>>

\* the endpoint that is number i of the list is torn down
ForcedTeardown(i) ==
    /\ registry_becomes(_gtp_endpoint_deref_destroy(D, gtp_endpoints[i].id))
    /\ tx' = <<>>
    /\ sys' = <<>>
    /\ last' = [ev |-> "deref_destroy", ep |-> gtp_endpoints[i].id,
                thread |-> gtp_endpoints[i].thread,
                use_count |-> gtp_endpoints[i].use_count,
                tunnels |-> Cardinality(TunnelsOf(D, gtp_endpoints[i].id)),
                destroys |-> _gtp_endpoint_deref_destroy(D, gtp_endpoints[i].id).destroys]
    /\ snap' = NoSnap
    /\ UNCHANGED <<rwlock, mt, cups_clients, subprocesses, procs, sigpending, indicated>>

\* two addresses, one TUN device
TeardownEps == {JEp("IPV4", 4, 0, GTP1U_PORT), JEp("IPV6", 16, 0, GTP1U_PORT)}

TeardownMsgs ==
    {Cmd("create_tun", CreateTun(e, t, "tun0", JAbsent)) : e \in TeardownEps, t \in TEIDs}
    \cup {Cmd("destroy_tun", DestroyTun(e, 1)) : e \in TeardownEps}

NextTeardown ==
    \/ Accept({1})
    \/ Data(TeardownMsgs, {"none"})
    \/ \E e \in TeardownEps : Hold(AddrOf(e))
    \/ \E i \in 1..Len(gtp_endpoints) : ForcedTeardown(i)

SpecTeardown == Init /\ [][NextTeardown]_vars

\* C21: after _gtp_endpoint_deref_destroy(ep) no tunnel references ep, ep is
\* not in the endpoint list, its worker is cancelled and its socket closed,
\* and _gtp_endpoint_destroy(ep) was called exactly once, by the release of
\* the last tunnel or after the loop, whether use_count was the number of
\* the endpoint's tunnels or larger.
C21_ForcedTeardownOnce ==
    last.ev = "deref_destroy"
    => /\ TunnelsOf(D, last.ep) = {}
       /\ last.ep \notin Allocated(D)
       /\ last.ep \notin sockets
       /\ last.thread \in DOMAIN threads => threads[last.thread].cancelled
       /\ last.destroys = 1

\* an endpoint with two tunnels and use_count 2 was torn down: the release
\* of the second tunnel destroyed it
C21_Witness ==
    /\ last.ev = "deref_destroy"
    /\ last.tunnels = 2 /\ last.use_count = 2
    /\ last.destroys = 1
    /\ gtp_tunnels = <<>>

(***************************************************************************)
(* Starting programs: one client creates a tunnel whose TUN device lives   *)
(* in a namespace and sends start_program, inside the namespace or not,    *)
(* with and without an environment; every step of the start may fail.      *)
(***************************************************************************)
ProgramMsgs ==
    {Cmd("create_tun", CreateTun(JEp("IPV4", 4, 0, GTP1U_PORT), 1, "tun0", JStr("ns1")))}
    \cup {Cmd("start_program", b) : b \in ValidStartProgram}

NextPrograms ==
    \/ Accept({1})
    \/ Data(ProgramMsgs, {"none"} \cup StartOutcomes)
    \/ Exit

SpecPrograms == Init /\ [][NextPrograms]_vars

\* position of the first call of this name among the system calls, or 0
CallAt(calls, name) ==
    IF \E i \in 1..Len(calls) : calls[i].call = name
    THEN Min({i \in 1..Len(calls) : calls[i].call = name})
    ELSE 0

\* the pids of the programs the step started
StartedBy(before, after) ==
    {p \in Pids : before[p].st = "free" /\ after[p].st = "running"}

\* C22 as stated: a start_program that passes parsing and namespace
\* resolution is answered with exactly one start_program_res, which carries
\* result OK and the pid (> 0) exactly when the program was started, one
\* subprocess record of that pid and of the requesting client being appended
\* then, and result ERR_INVALID_DATA and pid 0 otherwise, no record being
\* added; a namespace that was entered is left again.
C22_StartProgramAnswered ==
    [][(/\ last'.ev = "data" /\ last'.key = "start_program"
        /\ last'.case \in {"os_failure", "startable"})
       => /\ Len(tx') = 1
          /\ tx'[1].to = last'.cc
          /\ tx'[1].pdu.name = "start_program_res"
          /\ "pid" \in DOMAIN tx'[1].pdu
          /\ IF StartedBy(procs, procs') # {}
             THEN \E p \in StartedBy(procs, procs') :
                      /\ p > 0
                      /\ tx'[1].pdu.result = "OK"
                      /\ tx'[1].pdu.pid = p
                      /\ subprocesses' = Append(subprocesses,
                                                [pid |-> p, cups_client |-> last'.cc])
             ELSE /\ tx'[1].pdu.result = "ERR_INVALID_DATA"
                  /\ tx'[1].pdu.pid = 0
                  /\ subprocesses' = subprocesses
          /\ (\E i \in 1..Len(sys') : sys'[i].call = "switch_ns" /\ sys'[i].ok)
             => CallAt(sys', "restore_ns") > CallAt(sys', "switch_ns")]_vars

\* switch_ns() failed for a start_program inside the namespace of a TUN
\* device: the response carries no pid
C22_Witness ==
    /\ last.ev = "data" /\ last.key = "start_program" /\ last.case = "os_failure"
    /\ sys = <<[call |-> "switch_ns", ok |-> FALSE]>>
    /\ Len(tx) = 1
    /\ tx[1].pdu.name = "start_program_res"
    /\ tx[1].pdu.result = "ERR_INVALID_DATA"
    /\ "pid" \notin DOMAIN tx[1].pdu

\* C23 as stated: a worker makes no step that reads its endpoint after the
\* endpoint was destroyed: the look-up of a worker, which reads ep->name for
\* the log when it finds no tunnel, is made for an endpoint that is in the
\* list.
C23_NoLookupForDestroyedEndpoint ==
    last.ev = "lookup" => last.ep \in Allocated(D)

\* a worker that had received a datagram when its endpoint was destroyed has
\* taken the reader lock and looked the tunnel up: the endpoint is freed, its
\* socket closed, and the worker ended only at the logging of the miss
C23_Witness ==
    /\ last.ev = "lookup"
    /\ last.ep \notin Allocated(D)
    /\ last.ep \notin sockets
    /\ NoTunnel(last.teid, last.ep)
    /\ DOMAIN threads = {}

(***************************************************************************)
(* The life of the subprocess records: clients come and go, start programs *)
(* (the record of a started program may fail to be allocated) and reset;   *)
(* the children terminate and the main loop reads the signalfd, in any     *)
(* order.  The daemon never waits for a child, so no pid is used twice.    *)
(***************************************************************************)
LifecycleMsgs ==
    {Cmd("start_program", StartProgram(JAbsent, JAbsent)), Cmd("reset_all_state", JAbsent)}

\* the connection of a client is lost
Close == \E cc \in cups_clients : cups_client_read_cb(cc, "recv_fail", Garbage, NoOs)

\* a child terminates by itself or of the signal it was sent
Terminate == \E pid \in Pids : ChildExit(pid, 0)

NextLifecycle ==
    \/ Accept(ClientIds)
    \/ Data(LifecycleMsgs, {"sproc_alloc", "started"})
    \/ Close
    \/ Terminate
    \/ signal_cb

SpecLifecycle == Init /\ [][NextLifecycle]_vars

\* C24: every subprocess record is the record of a connected client, and a
\* program_term_ind is sent to a connected client only.
C24_RecordsOfConnectedClients ==
    /\ \A i \in 1..Len(subprocesses) : subprocesses[i].cups_client \in cups_clients
    /\ \A i \in 1..Len(tx) :
           tx[i].pdu.name = "program_term_ind" => tx[i].to \in cups_clients

\* the termination of a child was indicated to its client after another
\* client, which had started a program too, had disconnected
C24_Witness ==
    /\ last.ev = "sigchld"
    /\ Len(tx) = 1 /\ tx[1].pdu.name = "program_term_ind"
    /\ tx[1].to \in cups_clients
    /\ cups_clients # ClientIds
    /\ \E p \in Pids : p # tx[1].pdu.pid /\ procs[p].st \in {"killed", "zombie"}
                       /\ subprocess_by_pid(subprocesses, p) = 0

\* C25: at most one program_term_ind is sent for a pid, and only for the pid
\* of a program that was started; when the termination of a pid without a
\* record (its child was killed by reset_all_state or when its client
\* disconnected, or never had a record) is read from the signalfd, nothing
\* is sent and the subprocess list stays as it is.
C25_AtMostOneIndication ==
    /\ [](\A p \in Pids : /\ indicated[p] <= 1
                          /\ indicated[p] = 1 => procs[p].st # "free")
    /\ [][(/\ last'.ev = "sigchld"
           /\ \A i \in 1..Len(subprocesses) : subprocesses[i].pid # last'.pid)
          => /\ tx' = <<>>
             /\ subprocesses' = subprocesses
             /\ indicated' = indicated]_vars

\* the termination of a child that was killed and forgotten was read from
\* the signalfd after the termination of another child had been indicated
C25_Witness ==
    /\ last.ev = "sigchld"
    /\ tx = <<>>
    /\ procs[last.pid].st = "zombie" /\ procs[last.pid].status = SIGKILL
    /\ indicated[last.pid] = 0
    /\ \E p \in Pids : indicated[p] = 1

(***************************************************************************)
(* The lock, step by step: the main thread takes the writer lock (lk_wrlock)*)
(* and then runs the body of the section (lk_body), where a function that  *)
(* asks for the writer lock again would wait for ever; workers take and    *)
(* release the reader lock as before.  One tunnel is created (its TUN      *)
(* device may fail to open), destroyed and reset; packets arrive for it.   *)
(***************************************************************************)
\* the sections that would call gtp_endpoint_release(), which takes the
\* writer lock, with the writer lock held, were _gtp_tunnel_destroy() to
\* release the endpoint through it
relocks_in_cascade(section) == section \in {"gtp_tunnel_destroy", "reset_all_state"}

\* the sections in which, with the writer lock held, a function is called
\* that takes the writer lock: none.  gtp_endpoint_find_or_create() calls
\* _gtp_endpoint_find() and _gtp_endpoint_create(), gtp_endpoint_release()
\* calls _gtp_endpoint_release(), the others _gtp_tunnel_destroy(), whose
\* releases are the UNLOCKED ones.
relocks(section) == FALSE

\* the main thread is inside a section, holding the writer lock
InSection == mt # Idle /\ mt.pc \in Sections /\ rwlock.writer

\* pthread_rwlock_wrlock(): waits until nobody holds the lock
lk_wrlock ==
    /\ ~Exited
    /\ mt # Idle
    /\ mt.pc \in Sections
    /\ ~rwlock.writer /\ rwlock.readers = {}
    /\ rwlock' = [rwlock EXCEPT !.writer = TRUE]
    /\ tx' = <<>>
    /\ sys' = <<>>
    /\ last' = [ev |-> "wrlock", section |-> mt.pc]
    /\ snap' = snap
    /\ UNCHANGED <<mt, threads, sockets, gtp_endpoints, tun_devices, gtp_tunnels,
                   cups_clients, subprocesses, procs, sigpending, indicated>>

\* r is what the body of the section made of the registry and of the main
\* thread, which goes on to the pthread_rwlock_unlock()
lk_done(r) ==
    /\ gtp_endpoints' = r.d.gtp_endpoints
    /\ tun_devices' = r.d.tun_devices
    /\ gtp_tunnels' = r.d.gtp_tunnels
    /\ threads' = r.d.threads
    /\ sockets' = r.d.sockets
    /\ mt' = [r.m EXCEPT !.pc = "unlock"]

\* the body of the section; a pthread_rwlock_wrlock() in it never returns
lk_body ==
    /\ ~Exited
    /\ InSection
    /\ IF relocks(mt.pc)
       THEN /\ mt' = [mt EXCEPT !.pc = "wrlock"]
            /\ UNCHANGED <<gtp_endpoints, tun_devices, gtp_tunnels, threads, sockets>>
       ELSE \E r \in {section_body(mt, D)} : lk_done(r)
    /\ tx' = <<>>
    /\ sys' = <<>>
    /\ last' = [ev |-> "section", section |-> mt.pc]
    /\ snap' = snap
    /\ UNCHANGED <<rwlock, cups_clients, subprocesses, procs, sigpending, indicated>>

LockCreate == CreateTun(JEp("IPV4", 4, 0, GTP1U_PORT), 1, "tun0", JAbsent)

LockMsgs ==
    {Cmd("create_tun", LockCreate),
     Cmd("destroy_tun", DestroyTun(LockCreate.local_gtp_ep, LockCreate.rx_teid.v)),
     Cmd("reset_all_state", [jt |-> "object"])}

LockMainThread ==
    \/ ~Exited /\ mt = Idle /\ Accept({1})
    \/ \E cc \in cups_clients : \E m \in LockMsgs :
          \E os \in OsOutcomes(m, {"none", "tun_open"}) : mt_read(cc, m, os)
    \/ lk_wrlock
    \/ lk_body
    \/ mt_unlock
    \/ mt_respond

\* a packet for the tunnel, which finds it or, once the tunnel is destroyed,
\* finds none; recvfrom() may fail
LockWorkers ==
    \E tid \in DOMAIN threads :
        \/ \E rc \in {0 - 1, 0} :
               worker_recvfrom(tid, rc, Dg(9, GTP1_FLAGS, GTP_TPDU, 1, 1))
        \/ worker_rdlock(tid)
        \/ worker_lookup_step(tid)
        \/ \E rc \in (0 - 1)..1 : worker_write(tid, rc)

NextLock == LockMainThread \/ LockWorkers

\* the thread ids there can be
AllTids == Tids(<<"ep", AddrOf(LockCreate.local_gtp_ep), 0>>)

\* Fair scheduling: the main thread, once it has read a command, goes on
\* until it has answered, and a worker that has a packet goes on until it
\* has looked the tunnel up; a thread that asks for the lock gets it if the
\* lock is free again and again.  Nothing is assumed about the arrival of
\* commands and packets, nor about write().
SpecLock ==
    /\ Init /\ [][NextLock]_vars
    /\ SF_vars(lk_wrlock) /\ WF_vars(lk_body) /\ WF_vars(mt_unlock) /\ WF_vars(mt_respond)
    /\ \A tid \in AllTids : SF_vars(worker_rdlock(tid)) /\ WF_vars(worker_lookup_step(tid))

\* the worker waits for the reader lock
AtRdlock(tid) == tid \in DOMAIN threads /\ threads[tid].pc = "rdlock"

====
